---------------------------- MODULE Spec2Model ----------------------------
(***************************************************************************)
(* A model of the estimation notebooks of faif-book: the closed-form       *)
(* scalar MLE / MAP agents, the grid posterior of ExactLinearAgent, the    *)
(* linear Gaussian system of FactorAnalysisAgent and the EM loop of        *)
(* FactorAnalysisEMAgent.                                                  *)
(*                                                                         *)
(* Numbers.  A numpy float64 is modelled as a record                       *)
(*     [k |-> "fin" | "inf" | "ninf" | "nan", m |-> Int, e |-> Int]        *)
(* A finite value is m * 2^e, a binary floating-point number with a        *)
(* significand m of at most Precision bits (float64 has 53) and an         *)
(* unbounded exponent e; m is odd, or the value is 0.  Every arithmetic    *)
(* operation computes the exact result and rounds it to the nearest such   *)
(* number, ties to even, as IEEE-754 does.  The special values and the     *)
(* rules that produce them (x/0, inf - inf, log 0, the underflow of exp    *)
(* and of norm.pdf to 0) are modelled too.                                 *)
(***************************************************************************)
EXTENDS Integers, Sequences, FiniteSets, TLC

(***************************************************************************)
(* A local name: Bind(v, Body) is Body with its parameter naming the value *)
(* v, as a Python assignment names the value of its right-hand side.       *)
(***************************************************************************)
Bind(v, Body(_)) == Body(v)

(***************************************************************************)
(* Exact fractions [n, d], used to state properties of the floats          *)
(***************************************************************************)
Abs(i) == IF i < 0 THEN -i ELSE i

RECURSIVE GCD(_, _)
GCD(a, b) == IF b = 0 THEN a ELSE GCD(b, a % b)

RECURSIVE Pow2(_)
Pow2(i) == IF i = 0 THEN 1 ELSE 2 * Pow2(i - 1)

Frac(n, d) ==
    LET s == IF d < 0 THEN -1 ELSE 1
        g == GCD(Abs(n), Abs(d))
    IN  [n |-> (s * n) \div g, d |-> (s * d) \div g]

QInt(i) == [n |-> i, d |-> 1]
QNeg(a) == Frac(-a.n, a.d)
QAbs(a) == Frac(Abs(a.n), a.d)
QAdd(a, b) ==
    LET g == GCD(a.d, b.d)
    IN  Frac(a.n * (b.d \div g) + b.n * (a.d \div g), a.d * (b.d \div g))
QSub(a, b) == QAdd(a, QNeg(b))
QMul(a, b) ==
    LET g1 == GCD(Abs(a.n), b.d)
        g2 == GCD(Abs(b.n), a.d)
    IN  Frac((a.n \div g1) * (b.n \div g2), (a.d \div g2) * (b.d \div g1))
QDiv(a, b) ==
    LET g1 == GCD(Abs(a.n), Abs(b.n))
        g2 == GCD(a.d, b.d)
    IN  Frac((a.n \div g1) * (b.d \div g2), (a.d \div g2) * (b.n \div g1))
QLt(a, b) ==
    LET g == GCD(a.d, b.d)
    IN  a.n * (b.d \div g) < b.n * (a.d \div g)
QLe(a, b) == ~QLt(b, a)

(***************************************************************************)
(* float64: the values                                                     *)
(***************************************************************************)
Precision == 11      \* bits of the significand
TwoP == Pow2(Precision)
HalfP == Pow2(Precision - 1)

NaN  == [k |-> "nan",  m |-> 0, e |-> 0]
PInf == [k |-> "inf",  m |-> 0, e |-> 0]
NInf == [k |-> "ninf", m |-> 0, e |-> 0]
None == [k |-> "none", m |-> 0, e |-> 0]
Zero == [k |-> "fin",  m |-> 0, e |-> 0]
One  == [k |-> "fin",  m |-> 1, e |-> 0]

\* the float m * 2^e, for a significand that fits
RECURSIVE Canon(_, _)
Canon(m, e) ==
    IF m = 0 THEN Zero
    ELSE IF m % 2 = 0 THEN Canon(m \div 2, e + 1)
    ELSE [k |-> "fin", m |-> m, e |-> e]

\* (q + r/d) * 2^e for a quotient q < 2^(Precision+1) and a remainder r < d,
\* rounded to Precision significant bits, ties to even: the quotient takes
\* one more bit of r/d at a time until it has Precision + 1 bits, and its last
\* bit and the remainder decide
RECURSIVE RoundQuot(_, _, _, _)
RoundQuot(q, r, d, e) ==
    IF q >= TwoP
    THEN IF q % 2 = 1 /\ (r > 0 \/ (q \div 2) % 2 = 1)
         THEN Canon((q \div 2) + 1, e + 1)
         ELSE Canon(q \div 2, e + 1)
    ELSE IF r = 0 THEN Canon(q, e)
    ELSE IF 2 * r >= d THEN RoundQuot(2 * q + 1, 2 * r - d, d, e - 1)
    ELSE RoundQuot(2 * q, 2 * r, d, e - 1)

\* (a / d) * 2^e for a, d > 0, rounded
RECURSIVE RoundPos(_, _, _)
RoundPos(a, d, e) ==
    IF (a \div d) \div 2 >= TwoP THEN RoundPos(a, 2 * d, e + 1)
    ELSE RoundQuot(a \div d, a % d, d, e)

\* the float nearest to (a / d) * 2^e, d > 0
Round(a, d, e) ==
    IF a = 0 THEN Zero
    ELSE IF a > 0 THEN RoundPos(a, d, e)
    ELSE [RoundPos(-a, d, e) EXCEPT !.m = -@]

\* the float a literal n/d denotes, and the float of an integer
F(n, d) == Round(n, d, 0)
Int2F(i) == Round(i, 1, 0)

\* the exact value of a finite float
QOf(a) == IF a.e >= 0 THEN QInt(a.m * Pow2(a.e)) ELSE Frac(a.m, Pow2(-a.e))

IsFin(a)  == a.k = "fin"
IsNaN(a)  == a.k = "nan"
Sign(a)   == CASE a.k = "inf"  -> 1
               [] a.k = "ninf" -> -1
               [] a.k = "fin"  -> (IF a.m > 0 THEN 1 ELSE IF a.m < 0 THEN -1 ELSE 0)
               [] OTHER        -> 0
SignedInf(s) == IF s > 0 THEN PInf ELSE NInf

(***************************************************************************)
(* float64 arithmetic: the operators +, -, *, / and the comparisons        *)
(***************************************************************************)
FNeg(a) == CASE a.k = "fin"  -> [a EXCEPT !.m = -@]
             [] a.k = "inf"  -> NInf
             [] a.k = "ninf" -> PInf
             [] OTHER        -> NaN

\* m * 2^e with the significand shifted up to Precision bits
RECURSIVE Lead(_, _)
Lead(m, e) == IF Abs(m) >= HalfP THEN [m |-> m, e |-> e] ELSE Lead(2 * m, e - 1)

\* a + b for finite a, b # 0.  With the significands aligned the sum is
\* exact and then rounded; an operand below an eighth of the other's unit in
\* the last place does not change the other
AddFin(a, b) ==
    LET la == Lead(a.m, a.e)
        lb == Lead(b.m, b.e)
    IN  IF la.e - lb.e > Precision + 2 THEN a
        ELSE IF lb.e - la.e > Precision + 2 THEN b
        ELSE IF la.e >= lb.e
             THEN Round(la.m * Pow2(la.e - lb.e) + lb.m, 1, lb.e)
        ELSE Round(lb.m * Pow2(lb.e - la.e) + la.m, 1, la.e)

FAdd(a, b) ==
    CASE IsNaN(a) \/ IsNaN(b)      -> NaN
      [] IsFin(a) /\ IsFin(b)      ->
            IF a.m = 0 THEN b ELSE IF b.m = 0 THEN a ELSE AddFin(a, b)
      [] IsFin(a)                  -> b
      [] IsFin(b)                  -> a
      [] a.k = b.k                 -> a
      [] OTHER                     -> NaN

FSub(a, b) == FAdd(a, FNeg(b))

FMul(a, b) ==
    CASE IsNaN(a) \/ IsNaN(b)      -> NaN
      [] IsFin(a) /\ IsFin(b)      -> Round(a.m * b.m, 1, a.e + b.e)
      [] Sign(a) * Sign(b) = 0     -> NaN
      [] OTHER                     -> SignedInf(Sign(a) * Sign(b))

FDiv(a, b) ==
    CASE IsNaN(a) \/ IsNaN(b)      -> NaN
      [] IsFin(a) /\ IsFin(b)      ->
            IF b.m > 0 THEN Round(a.m, b.m, a.e - b.e)
            ELSE IF b.m < 0 THEN Round(-a.m, -b.m, a.e - b.e)
            ELSE IF a.m = 0 THEN NaN ELSE SignedInf(Sign(a))
      [] IsFin(b)                  ->
            SignedInf(Sign(a) * (IF b.m < 0 THEN -1 ELSE 1))
      [] IsFin(a)                  -> Zero
      [] OTHER                     -> NaN

\* the logarithm of a float held as 0, 1, e^q or inf (see np_log below)
LogOf(v) ==
    CASE v.k = "exp"  -> [k |-> "fin", m |-> v.m, e |-> v.e]
      [] v.k = "inf"  -> v
      [] v = Zero     -> NInf
      [] v = One      -> Zero
      [] OTHER        -> NaN

RECURSIVE FLt(_, _)
FLt(a, b) ==
    CASE IsNaN(a) \/ IsNaN(b)      -> FALSE
      [] a.k = "exp" \/ b.k = "exp" -> FLt(LogOf(a), LogOf(b))
      [] IsFin(a) /\ IsFin(b)      -> Sign(FSub(a, b)) < 0
      [] a.k = b.k                 -> FALSE
      [] OTHER                     -> a.k = "ninf" \/ b.k = "inf"

FLe(a, b) == ~IsNaN(a) /\ ~IsNaN(b) /\ ~FLt(b, a)

\* the sum of a one-dimensional array, added up from the left
RECURSIVE FSum(_)
FSum(s) == IF s = <<>> THEN Zero
           ELSE FAdd(FSum(SubSeq(s, 1, Len(s) - 1)), s[Len(s)])

np_mean(y) == FDiv(FSum(y), Int2F(Len(y)))


(***************************************************************************)
(* State                                                                   *)
(***************************************************************************)
VARIABLES
    env,          \* static_linear environment: beta_0_star, beta_1_star, y_star_std
    x_star,       \* the external state the environment was built with
    y,            \* the batch of observations generated last (<<>>: none yet)
    mle_agent,    \* LinearMaximumLikelihoodAgent: params and posterior_mode
    map_agent,    \* LinearMaximumAprioriAgent: params and posterior_mode
    agents,       \* the agents of the session
    inferred,     \* the agents whose infer_state has run on the batch y
    last,         \* size and mean of the previous batch, the two estimates from it
    plot,         \* noisy_generative_process: y_mean and its inverse image
    round,        \* number of batches generated so far
    exact_agent,  \* ExactLinearAgent: params and model components
    Ydata,        \* the observation matrix of the factor analysis notebooks
    fa_agent,     \* FactorAnalysisAgent: params, posterior moments, outcome
    em_agent,     \* FactorAnalysisEMAgent: params and the arrays indexed by j
    em_pc,        \* run_EM: the position of control
    em_run,       \* run_EM: iteration index, error raised, record of the steps
    gd_agent,     \* gradient descent agent: params, x, the two histories
    gd_pc,        \* infer_state of that agent: state of the run, loop counter
    reg_agent,    \* MultipleLinearRegressionAgent: data, theta, predictions
    env_obj       \* StaticEnvironment object of a notebook: params, last output

session_vars == <<env, x_star, y, agents, inferred, round>>
scalar_vars == <<mle_agent, map_agent, last, plot>>
grid_vars == <<exact_agent>>
matrix_vars == <<Ydata, fa_agent, em_agent, em_pc, em_run>>
extra_vars == <<gd_agent, gd_pc, reg_agent, env_obj>>
vars == <<session_vars, scalar_vars, grid_vars, matrix_vars, extra_vars>>

\* no factor analysis agent in the session
NoMatrixAgent == [status |-> "none"]
NoRun == [status |-> "none", i |-> 0]
IdleMatrix ==
    /\ Ydata = <<>>
    /\ fa_agent = NoMatrixAgent
    /\ em_agent = NoMatrixAgent
    /\ em_pc = "none"
    /\ em_run = NoMatrixAgent

\* no agent or environment of the later notebooks in the session
IdleExtra ==
    /\ gd_agent = NoMatrixAgent
    /\ gd_pc = NoRun
    /\ reg_agent = NoMatrixAgent
    /\ env_obj = NoMatrixAgent

(***************************************************************************)
(* Bounds of the scalar session                                            *)
(***************************************************************************)
MaxN == 2            \* largest batch size
MaxRounds == 2       \* batches generated in one session

\* 2 as in the notebooks, and two states next to 1: one and two units in the
\* last place above it
XStarSet  == {Int2F(2), F(HalfP + 1, HalfP), F(HalfP + 2, HalfP)}
Beta0Set  == {3}
Beta1Set  == {2, -1, 0}
Beta1StarSet == {2}
MxSet     == {4, 1}
StdSet    == {0, 1}
\* the draws of np.random.normal the model follows, per noise level
NoiseSet(std) == IF std = 0 THEN {0} ELSE {-2, 0, 1}

(***************************************************************************)
(* noisy_generative_process: the generating function and its inverse       *)
(***************************************************************************)
ge(x, beta_0_star, beta_1_star) ==
    FAdd(FMul(Int2F(beta_1_star), x), Int2F(beta_0_star))

\* a slip in ge_inv: the division before the subtraction
ge_inv_swapped(yy, beta_0_star, beta_1_star) ==
    FSub(FDiv(yy, Int2F(beta_1_star)), Int2F(beta_0_star))

ge_inv(yy, beta_0_star, beta_1_star) ==
    FDiv(FSub(yy, Int2F(beta_0_star)), Int2F(beta_1_star))

\* env.build(x_star); env.generate(): one noisy observation
env_generate(x, e, eps) == FAdd(ge(x, e.beta_0_star, e.beta_1_star), Int2F(eps))

(***************************************************************************)
(* 8_analytic_map_mle_estimation: the closed-form estimators               *)
(***************************************************************************)
\* a slip in the MLE: the intercept added instead of subtracted
mle_posterior_mode_plus(yy, beta_0, beta_1) ==
    FDiv(FAdd(np_mean(yy), Int2F(beta_0)), Int2F(beta_1))

mle_posterior_mode(yy, beta_0, beta_1) ==
    FDiv(FSub(np_mean(yy), Int2F(beta_0)), Int2F(beta_1))

\* slips in the MAP: the prior mean left out; the prior's weight doubled
map_posterior_mode_noprior(yy, beta_0, beta_1, m_x) ==
    FDiv(FMul(Int2F(beta_1), FSub(np_mean(yy), Int2F(beta_0))),
         Int2F(beta_1 * beta_1 + 1))

map_posterior_mode_overshoot(yy, beta_0, beta_1, m_x) ==
    FDiv(FAdd(FMul(Int2F(beta_1), FSub(np_mean(yy), Int2F(beta_0))),
              Int2F(2 * (beta_1 * beta_1 + 1) * m_x)),
         Int2F(beta_1 * beta_1 + 1))

map_posterior_mode(yy, beta_0, beta_1, m_x) ==
    FDiv(FAdd(FMul(Int2F(beta_1), FSub(np_mean(yy), Int2F(beta_0))), Int2F(m_x)),
         Int2F(beta_1 * beta_1 + 1))

NoLast == [N |-> 0, mean |-> None, mle |-> None, map |-> None]
NoAgent == [posterior |-> <<>>]
NoScalarAgent == [posterior_mode |-> None]
NoPlot == [y_mean |-> None, x_inv |-> None]

InitScalar ==
    /\ IdleExtra
    /\ env \in [beta_0_star : Beta0Set, beta_1_star : Beta1StarSet, y_star_std : StdSet]
    /\ x_star \in XStarSet
    /\ y = <<>>
    /\ \E b0 \in Beta0Set, b1 \in Beta1Set, m \in MxSet :
          /\ mle_agent = [beta_0 |-> b0, beta_1 |-> b1, posterior_mode |-> None]
          /\ map_agent = [beta_0 |-> b0, beta_1 |-> b1, m_x |-> m,
                          posterior_mode |-> None]
    /\ agents = {"mle", "map"}
    /\ inferred = {}
    /\ last = NoLast
    /\ plot = NoPlot
    /\ round = 0
    /\ exact_agent = NoAgent
    /\ IdleMatrix

\* for i in range(N): env.build(x_star); y[i] = env.generate()
\* (the estimation notebook is run after the background notebook, and a new
\* batch is drawn once every agent has seen the previous one)
Generate ==
    /\ round < MaxRounds
    /\ round = 0 \/ inferred = agents
    /\ "mle" \in agents => plot # NoPlot
    /\ \E N \in 1..MaxN : \E eps \in [1..N -> NoiseSet(env.y_star_std)] :
          y' = [i \in 1..N |-> env_generate(x_star, env, eps[i])]
    /\ last' = IF "map" \in agents
               THEN [N |-> Len(y),
                     mean |-> IF y = <<>> THEN None ELSE np_mean(y),
                     mle |-> mle_agent.posterior_mode,
                     map |-> map_agent.posterior_mode]
               ELSE NoLast
    /\ inferred' = {}
    /\ round' = round + 1
    /\ UNCHANGED <<env, x_star, agents, mle_agent, map_agent, plot, grid_vars,
                   matrix_vars, extra_vars>>

\* LinearMaximumLikelihoodAgent.infer_state(y)
MLE_infer_state ==
    /\ y # <<>>
    /\ "mle" \in agents \ inferred
    /\ mle_agent' = [mle_agent EXCEPT !.posterior_mode =
                        mle_posterior_mode(y, mle_agent.beta_0, mle_agent.beta_1)]
    /\ inferred' = inferred \cup {"mle"}
    /\ UNCHANGED <<env, x_star, y, agents, map_agent, last, plot, round, grid_vars,
                   matrix_vars, extra_vars>>

\* LinearMaximumAprioriAgent.infer_state(y)
MAP_infer_state ==
    /\ y # <<>>
    /\ "map" \in agents \ inferred
    /\ map_agent' = [map_agent EXCEPT !.posterior_mode =
                        map_posterior_mode(y, map_agent.beta_0, map_agent.beta_1,
                                           map_agent.m_x)]
    /\ inferred' = inferred \cup {"map"}
    /\ UNCHANGED <<env, x_star, y, agents, mle_agent, last, plot, round, grid_vars,
                   matrix_vars, extra_vars>>

\* y_mean = ge(point_x, ...); ... ge_inv(y_mean, ...)
PlotPoint ==
    /\ plot = NoPlot
    /\ LET ym == ge(x_star, env.beta_0_star, env.beta_1_star)
       IN  plot' = [y_mean |-> ym,
                    x_inv  |-> ge_inv(ym, env.beta_0_star, env.beta_1_star)]
    /\ UNCHANGED <<session_vars, mle_agent, map_agent, last, grid_vars, matrix_vars, extra_vars>>

NextScalar == Generate \/ MLE_infer_state \/ MAP_infer_state \/ PlotPoint

SpecScalar == InitScalar /\ [][NextScalar]_vars


(***************************************************************************)
(* Properties of the closed-form estimators                                *)
(*                                                                         *)
(* Q-operators compute in exact fractions; U(k) is k units of relative     *)
(* rounding error, k * 2^-Precision.                                       *)
(***************************************************************************)
U(k) == Frac(k, TwoP)
RECURSIVE QSumAbs(_)
QSumAbs(s) == IF s = <<>> THEN QInt(0) ELSE QAdd(QAbs(QOf(Head(s))), QSumAbs(Tail(s)))
RECURSIVE QSum(_)
QSum(s) == IF s = <<>> THEN QInt(0) ELSE QAdd(QOf(Head(s)), QSum(Tail(s)))
QMean(s) == QDiv(QSum(s), QInt(Len(s)))
QMeanAbs(s) == QDiv(QSumAbs(s), QInt(Len(s)))
StrictlyBetween(v, a, b) ==
    \/ FLt(a, v) /\ FLt(v, b)
    \/ FLt(b, v) /\ FLt(v, a)
\* every observation of the batch is ge(x_star) of the environment
NoiseFree ==
    \A i \in 1..Len(y) : y[i] = ge(x_star, env.beta_0_star, env.beta_1_star)
\* ge(x_star) is computed without rounding
GeExact ==
    LET prod == QMul(QInt(env.beta_1_star), QOf(x_star))
    IN  /\ QOf(FMul(Int2F(env.beta_1_star), x_star)) = prod
        /\ QOf(ge(x_star, env.beta_0_star, env.beta_1_star)) =
               QAdd(prod, QInt(env.beta_0_star))
SameParams ==
    /\ mle_agent.beta_0 = env.beta_0_star
    /\ mle_agent.beta_1 = env.beta_1_star
BothInferred == inferred = {"mle", "map"}

\* C5: after LinearMaximumLikelihoodAgent.infer_state(y) with beta_1 # 0 the
\* posterior mode m is the float (mean(y) - beta_0) / beta_1, a value fixed by
\* y, beta_0 and beta_1 alone whatever the noise level of the environment, and
\* beta_1 * m + beta_0 = mean(y) up to rounding:
\* |beta_1 * m + beta_0 - mean(y)| <= (N + 3) units of (mean|y| + |beta_0|).
C5_MleIsInverseOfMean ==
    ("mle" \in inferred /\ mle_agent.beta_1 # 0) =>
        LET m  == mle_agent.posterior_mode
            b0 == QInt(mle_agent.beta_0)
            b1 == QInt(mle_agent.beta_1)
        IN  /\ IsFin(m)
            /\ m = FDiv(FSub(FDiv(FSum(y), Int2F(Len(y))), Int2F(mle_agent.beta_0)),
                        Int2F(mle_agent.beta_1))
            /\ QLe(QAbs(QSub(QAdd(QMul(b1, QOf(m)), b0), QMean(y))),
                   QMul(U(Len(y) + 3), QAdd(QMeanAbs(y), QAbs(b0))))

C5_Witness ==
    /\ "mle" \in inferred
    /\ mle_agent.beta_1 # 0
    /\ env.y_star_std # 0
    /\ Len(y) = 2 /\ y[1] # y[2]
    /\ QAdd(QMul(QInt(mle_agent.beta_1), QOf(mle_agent.posterior_mode)),
            QInt(mle_agent.beta_0)) = QMean(y)

\* C6 as stated: with beta_1_star # 0 the inverse generating function maps
\* ge(x_star) back to exactly x_star, and so does the MLE agent with the
\* environment's beta_0, beta_1 on a noise-free batch.
C6_Original ==
    /\ (plot # NoPlot /\ env.beta_1_star # 0) => plot.x_inv = x_star
    /\ ("mle" \in inferred /\ SameParams /\ NoiseFree /\ mle_agent.beta_1 # 0) =>
           mle_agent.posterior_mode = x_star

\* C6 amended: ge_inv(ge(x_star)) and the MLE estimate from a noise-free batch
\* equal x_star up to rounding, |beta_1| * |estimate - x_star| <= (N + 6) units
\* of (|beta_1 * x_star| + |beta_0|), and equal x_star exactly when ge(x_star)
\* is computed without rounding (and, for the agent, so is the mean).
C6_RecoveryUpToRounding ==
    LET b1  == QInt(env.beta_1_star)
        b0  == QInt(env.beta_0_star)
        mag == QAdd(QAbs(QMul(b1, QOf(x_star))), QAbs(b0))
    IN  /\ (plot # NoPlot /\ env.beta_1_star # 0) =>
              /\ QLe(QMul(QAbs(b1), QAbs(QSub(QOf(plot.x_inv), QOf(x_star)))),
                     QMul(U(6), mag))
              /\ GeExact => plot.x_inv = x_star
        /\ ("mle" \in inferred /\ SameParams /\ NoiseFree /\ mle_agent.beta_1 # 0) =>
              LET m == mle_agent.posterior_mode
              IN  /\ IsFin(m)
                  /\ QLe(QMul(QAbs(b1), QAbs(QSub(QOf(m), QOf(x_star)))),
                         QMul(U(Len(y) + 6), mag))
                  /\ (GeExact /\ np_mean(y) = y[1]) => m = x_star

C6_Witness ==
    /\ plot # NoPlot
    /\ "mle" \in inferred /\ SameParams /\ NoiseFree
    /\ env.beta_1_star # 0
    /\ ~GeExact
    /\ mle_agent.posterior_mode # x_star
    /\ Len(y) = 2

\* C7: after LinearMaximumAprioriAgent.infer_state(y) the posterior mode m is
\* the float (beta_1 * (mean(y) - beta_0) + m_x) / (beta_1^2 + 1), which is the
\* exact value of that formula up to rounding; and beta_0 = 3, beta_1 = 2,
\* m_x = 4, y = [7] gives the float 2.4.
C7_MapFormula ==
    "map" \in inferred =>
        LET m  == map_agent.posterior_mode
            b0 == QInt(map_agent.beta_0)
            b1 == QInt(map_agent.beta_1)
            mx == QInt(map_agent.m_x)
            b2 == QAdd(QMul(b1, b1), QInt(1))
            f1 == Int2F(map_agent.beta_1)
        IN  /\ IsFin(m)
            /\ m = FDiv(FAdd(FMul(f1, FSub(FDiv(FSum(y), Int2F(Len(y))),
                                           Int2F(map_agent.beta_0))),
                             Int2F(map_agent.m_x)),
                        FAdd(FMul(f1, f1), One))
            /\ QLe(QAbs(QSub(QMul(b2, QOf(m)),
                             QAdd(QMul(b1, QSub(QMean(y), b0)), mx))),
                   QMul(U(Len(y) + 5),
                        QAdd(QMul(QAbs(b1), QAdd(QMeanAbs(y), QAbs(b0))), QAbs(mx))))
            /\ (map_agent.beta_0 = 3 /\ map_agent.beta_1 = 2 /\ map_agent.m_x = 4
                /\ y = <<Int2F(7)>>) => m = F(12, 5)

C7_Witness ==
    /\ "map" \in inferred
    /\ map_agent.beta_0 = 3 /\ map_agent.beta_1 = 2 /\ map_agent.m_x = 4
    /\ y = <<Int2F(7)>>
    /\ map_agent.posterior_mode = F(12, 5)

\* the margin of C8: 8 (beta_1^2 + 1) units of (|MLE| + |m_x|)
C8_Margin ==
    QMul(U(8 * (map_agent.beta_1 * map_agent.beta_1 + 1)),
         QAdd(QAbs(QOf(mle_agent.posterior_mode)), QAbs(QInt(map_agent.m_x))))

\* C8 as stated: for agents with the environment's beta_0, beta_1 (beta_1 # 0),
\* whenever the prior mean differs from the true state, the MAP estimate lies
\* strictly between the MLE estimate and the prior mean.
C8_Original ==
    (/\ BothInferred /\ SameParams
     /\ map_agent.beta_1 # 0
     /\ Int2F(map_agent.m_x) # x_star) =>
        StrictlyBetween(map_agent.posterior_mode, mle_agent.posterior_mode,
                        Int2F(map_agent.m_x))

\* C8 amended: for the same observations, beta_0 and beta_1 (|beta_1| >= 1),
\* whenever the MLE estimate differs from the prior mean by more than the
\* rounding margin, the MAP estimate lies strictly between the two; in every
\* case it lies within the margin of the interval they span.
C8_MapBetweenMleAndPrior ==
    (BothInferred /\ map_agent.beta_1 # 0) =>
        LET mle == QOf(mle_agent.posterior_mode)
            map == QOf(map_agent.posterior_mode)
            mx  == QInt(map_agent.m_x)
            lo  == IF QLt(mle, mx) THEN mle ELSE mx
            hi  == IF QLt(mle, mx) THEN mx ELSE mle
        IN  /\ QLe(QSub(lo, C8_Margin), map) /\ QLe(map, QAdd(hi, C8_Margin))
            /\ QLt(C8_Margin, QAbs(QSub(mle, mx))) =>
                  StrictlyBetween(map_agent.posterior_mode, mle_agent.posterior_mode,
                                  Int2F(map_agent.m_x))

C8_Witness ==
    /\ BothInferred
    /\ map_agent.beta_1 # 0
    /\ QLt(C8_Margin, QAbs(QSub(QOf(mle_agent.posterior_mode), QInt(map_agent.m_x))))
    /\ mle_agent.posterior_mode # x_star
    /\ Len(y) = 2

\* C9 as stated: of two batches with the same mean, the larger one brings the
\* MAP estimate closer to the MLE estimate (when the prior moved the MAP
\* estimate of the smaller batch at all).
C9_PriorVanishesWithN ==
    (/\ BothInferred /\ SameParams
     /\ last.map # None /\ last.mle # None
     /\ map_agent.beta_1 # 0
     /\ Len(y) > last.N
     /\ np_mean(y) = last.mean
     /\ last.map # last.mle)
    => QLt(QAbs(QSub(QOf(map_agent.posterior_mode), QOf(mle_agent.posterior_mode))),
           QAbs(QSub(QOf(last.map), QOf(last.mle))))


(***************************************************************************)
(* 7_scaling_to_multiple_samples: ExactLinearAgent, the grid posterior     *)
(*                                                                         *)
(* A positive float known through its logarithm is the record              *)
(* [k |-> "exp", m, e], the value exp(m * 2^e); np.exp and np.log convert. *)
(***************************************************************************)
\* ln of the smallest positive float64, 2^-1074: below it exp rounds to 0
LnMinSubnormal == F(-745133, 1000)
\* ln of the largest float64: above it exp overflows to inf
LnMaxFloat == F(709783, 1000)

\* the nearest float to e^a is 1 for a from -2^-(Precision+1), half the gap
\* below 1, up to but not including 2^-Precision, half the gap above 1
exp_rounds_to_one(a) ==
    a.m = 0 \/ (FLe(F(-1, 2 * TwoP), a) /\ FLt(a, F(1, TwoP)))

np_exp(a) ==
    CASE a.k = "nan"  -> NaN
      [] a.k = "inf"  -> PInf
      [] a.k = "ninf" -> Zero
      [] OTHER        ->
            IF FLt(a, LnMinSubnormal) THEN Zero
            ELSE IF FLt(LnMaxFloat, a) THEN PInf
            ELSE IF exp_rounds_to_one(a) THEN One
            ELSE [k |-> "exp", m |-> a.m, e |-> a.e]

np_log(v) == LogOf(v)

\* ln(scale * sqrt(2 pi)) to three decimals, for the scales the model draws
LnNorm(scale) ==
    CASE scale = F(1, 20) -> F(-2077, 1000)
      [] scale = F(1, 4)  -> F(-467, 1000)
      [] scale = F(1, 2)  -> F(226, 1000)
      [] scale = One      -> F(919, 1000)

\* scipy.stats.norm.pdf(x, loc, scale) = exp(-z^2 / 2) / (scale * sqrt(2 pi))
norm_pdf(x, loc, scale) ==
    IF ~FLt(Zero, scale) THEN NaN
    ELSE LET z == FDiv(FSub(x, loc), scale)
             e == np_exp(FDiv(FNeg(FMul(z, z)), Int2F(2)))
         IN  IF e = Zero THEN Zero
             ELSE np_exp(FSub(np_log(e), LnNorm(scale)))

\* np.max of a one-dimensional array: nan if any entry is nan
np_max(a) ==
    IF \E i \in 1..Len(a) : IsNaN(a[i]) THEN NaN
    ELSE CHOOSE m \in {a[i] : i \in 1..Len(a)} :
             \A i \in 1..Len(a) : FLe(a[i], m)

\* np.linspace(start, stop, num), num > 1: arange(num) * step + start, the
\* last entry set to stop
np_linspace(start, stop, num) ==
    LET step == FDiv(FSub(stop, start), Int2F(num - 1))
    IN  [i \in 1..num |->
            IF i = num THEN stop ELSE FAdd(FMul(Int2F(i - 1), step), start)]

\* ExactLinearAgent.gm over the grid
gm(a, x) == FAdd(FMul(Int2F(a.beta_1), x), Int2F(a.beta_0))

\* a slip in the sum over the samples: the first sample only
sum_axis0_first_row(m, G) == [g \in 1..G |-> m[1][g]]
\* sum(axis=0) of an N x G matrix given as a sequence of rows
sum_axis0(m, G) == [g \in 1..G |-> FSum([i \in 1..Len(m) |-> m[i][g]])]

\* ExactLinearAgent.generative_model(y, generating_function): the fields it
\* sets and the array it returns
generative_model(a, yy, generating_function) ==
    LET G == Len(a.x_range)
        likelihood_i == [i \in 1..Len(yy) |->
                           [g \in 1..G |->
                               norm_pdf(yy[i], generating_function[g], a.std_y)]]
        prior == [g \in 1..G |-> norm_pdf(a.x_range[g], Int2F(a.m_x), a.s_x)]
        log_likelihood == sum_axis0([i \in 1..Len(yy) |->
                              [g \in 1..G |-> np_log(likelihood_i[i][g])]], G)
        log_prior == [g \in 1..G |-> np_log(prior[g])]
    IN  [likelihood_i |-> likelihood_i, prior |-> prior,
         log_likelihood |-> log_likelihood, log_prior |-> log_prior,
         result |-> [g \in 1..G |-> FAdd(log_likelihood[g], log_prior[g])]]

\* a slip in the normalisation: the largest log-density not subtracted
normalise_unshifted(log_gen_model) ==
    [g \in 1..Len(log_gen_model) |-> np_exp(log_gen_model[g])]
\* the log-sum-exp normalisation of infer_state
normalise(log_gen_model) ==
    LET mx == np_max(log_gen_model)
    IN  [g \in 1..Len(log_gen_model) |-> np_exp(FSub(log_gen_model[g], mx))]

GridNum == 4         \* number of grid points
StdYSet == {F(1, 20), F(1, 4)}
SxSet == {F(1, 20), F(1, 4)}
XStarGridSet == {Int2F(2), Int2F(5), F(67, 32)}
\* a fine grid around the state 2, as np.linspace(2, 2.09375, 4) gives it
FineGrid == np_linspace(Int2F(2), F(67, 32), 4)

\* ExactLinearAgent(params): the parameters, the model components unset
exact_init(params) ==
    [beta_0 |-> params.beta_0, beta_1 |-> params.beta_1,
     std_y |-> params.std_y, m_x |-> params.m_x, s_x |-> params.s_x,
     x_range |-> params.x_range,
     log_likelihood |-> <<>>, log_prior |-> <<>>,
     prior |-> <<>>, log_gen_model |-> <<>>,
     posterior |-> <<>>]
\* the agent parameters the model draws: the coarse grid with every pair of
\* widths, and the fine grid with a wide likelihood and a prior at 2
ExactParamSet ==
    [beta_0 : {3}, beta_1 : {2}, std_y : StdYSet, m_x : MxSet, s_x : SxSet,
     x_range : {np_linspace(Int2F(1), Int2F(4), GridNum)}]
    \cup {[beta_0 |-> 3, beta_1 |-> 2, std_y |-> F(1, 2), m_x |-> 2,
            s_x |-> F(1, 4), x_range |-> FineGrid]}

InitGrid ==
    /\ IdleExtra
    /\ env \in [beta_0_star : Beta0Set, beta_1_star : {2}, y_star_std : StdSet]
    /\ x_star \in XStarGridSet
    /\ y = <<>>
    /\ agents = {"exact"}
    /\ inferred = {}
    /\ round = 0
    /\ mle_agent = NoScalarAgent /\ map_agent = NoScalarAgent
    /\ last = NoLast /\ plot = NoPlot
    /\ IdleMatrix
    /\ \E params \in ExactParamSet : exact_agent = exact_init(params)
    \* the fine grid is used on the noise-free state it was laid around
    /\ exact_agent.x_range = FineGrid <=> x_star = F(67, 32)
    /\ exact_agent.x_range = FineGrid => env.y_star_std = 0

\* ExactLinearAgent.infer_state(y)
Exact_infer_state ==
    /\ y # <<>>
    /\ "exact" \in agents \ inferred
    /\ LET a == exact_agent
           generating_function == [g \in 1..Len(a.x_range) |-> gm(a, a.x_range[g])]
       IN  \E gmod \in {generative_model(a, y, generating_function)} :
              exact_agent' = [a EXCEPT !.prior = gmod.prior,
                                       !.log_likelihood = gmod.log_likelihood,
                                       !.log_prior = gmod.log_prior,
                                       !.log_gen_model = gmod.result,
                                       !.posterior = normalise(gmod.result)]
    /\ inferred' = inferred \cup {"exact"}
    /\ UNCHANGED <<env, x_star, y, agents, round, scalar_vars, matrix_vars, extra_vars>>

NextGrid == Generate \/ Exact_infer_state

SpecGrid == InitGrid /\ [][NextGrid]_vars

\* C1: after ExactLinearAgent.infer_state(y) the largest entry of the
\* posterior array is exactly 1.
C1_MaxPosteriorIsOne ==
    "exact" \in inferred => np_max(exact_agent.posterior) = One

(***************************************************************************)
(* numpy arrays of the factor analysis notebooks.  A vector is a sequence  *)
(* of floats, a matrix a sequence of rows.                                 *)
(***************************************************************************)
FAbs(a) == IF Sign(a) < 0 THEN FNeg(a) ELSE a

vec_add(u, v) == [i \in 1..Len(u) |-> FAdd(u[i], v[i])]
vec_scale(c, v) == [i \in 1..Len(v) |-> FMul(c, v[i])]
dot(u, v) == FSum([i \in 1..Len(u) |-> FMul(u[i], v[i])])

NRows(A) == Len(A)
NCols(A) == IF A = <<>> THEN 0 ELSE Len(A[1])
col(A, j) == [i \in 1..NRows(A) |-> A[i][j]]
mat_T(A) == [j \in 1..NCols(A) |-> col(A, j)]
mat_add(A, B) == [i \in 1..NRows(A) |-> vec_add(A[i], B[i])]
mat_sub(A, B) ==
    [i \in 1..NRows(A) |-> [j \in 1..NCols(A) |-> FSub(A[i][j], B[i][j])]]
mat_scale(c, A) == [i \in 1..NRows(A) |-> vec_scale(c, A[i])]
mat_div(A, c) == [i \in 1..NRows(A) |-> [j \in 1..NCols(A) |-> FDiv(A[i][j], c)]]
\* A @ B and A @ v
matmul(A, B) ==
    [i \in 1..NRows(A) |-> [j \in 1..NCols(B) |-> dot(A[i], col(B, j))]]
matvec(A, v) == [i \in 1..NRows(A) |-> dot(A[i], v)]
np_eye(n) == [i \in 1..n |-> [j \in 1..n |-> IF i = j THEN One ELSE Zero]]
np_zeros(n, m) == [i \in 1..n |-> [j \in 1..m |-> Zero]]
\* a slip: the matrix kept whole
diag_diag_full(A) == A
\* diag(diag(A)): the diagonal of A, as a diagonal matrix
diag_diag(A) ==
    [i \in 1..NRows(A) |-> [j \in 1..NRows(A) |-> IF i = j THEN A[i][i] ELSE Zero]]
\* np.mean(A, axis=0): the mean of the rows; np.mean(A, axis=1): of the columns
mean_axis0(A) == [j \in 1..NCols(A) |-> np_mean(col(A, j))]
\* a slip: the first sample taken for the mean over the samples
mean_axis1_first_sample(A) == [i \in 1..NRows(A) |-> A[i][1]]
mean_axis1(A) == [i \in 1..NRows(A) |-> np_mean(A[i])]

(***************************************************************************)
(* numpy.linalg.inv: LAPACK gesv on the identity, that is an LU             *)
(* factorisation with partial pivoting and two triangular solves, written  *)
(* out for the orders 1 and 2.  A pivot that is exactly zero makes the     *)
(* matrix singular: LinAlgError.                                           *)
(***************************************************************************)
Raised(e) == [err |-> e, val |-> <<>>]
Returned(v) == [err |-> "", val |-> v]

inv1(A) ==
    IF A[1][1] = Zero THEN Raised("LinAlgError")
    ELSE Returned(<<<<FDiv(One, A[1][1])>>>>)

inv2(A) ==
    Bind(FLt(FAbs(A[1][1]), FAbs(A[2][1])), LAMBDA swap :
    LET p == IF swap THEN A[2][1] ELSE A[1][1]
        q == IF swap THEN A[2][2] ELSE A[1][2]
        r == IF swap THEN A[1][1] ELSE A[2][1]
        s == IF swap THEN A[1][2] ELSE A[2][2]
        b1 == IF swap THEN <<Zero, One>> ELSE <<One, Zero>>
        b2 == IF swap THEN <<One, Zero>> ELSE <<Zero, One>>
    IN  IF p = Zero THEN Raised("LinAlgError") ELSE
    Bind(FMul(r, FDiv(One, p)), LAMBDA l :
    Bind(FSub(s, FMul(l, q)), LAMBDA u22 :
    \* the solution of L U x = b
    LET x2(b) == FDiv(FSub(b[2], FMul(l, b[1])), u22)
        x1(b, xb2) == FDiv(FSub(b[1], FMul(q, xb2)), p)
        x(b) == Bind(x2(b), LAMBDA xb2 : <<x1(b, xb2), xb2>>)
    IN  IF u22 = Zero THEN Raised("LinAlgError") ELSE
    Bind(<<x(b1), x(b2)>>, LAMBDA X : Returned(mat_T(X))))))

inv(A) == IF NRows(A) = 1 THEN inv1(A) ELSE inv2(A)


(***************************************************************************)
(* The linear Gaussian system notebook: StaticEnvironment and              *)
(* FactorAnalysisAgent                                                     *)
(***************************************************************************)
MaxRows == 2         \* largest number of samples (rows of y)

\* StaticEnvironment.generate(x_star), for the noise vectors drawn
\* a slip in generate: the state noise drawn and not added to the state
fa_env_generate_clean_state(e, xs, x_noise, y_noise) ==
    LET mean == [i \in 1..NRows(e.Theta_star) |->
                    FAdd(dot(e.Theta_star[i], xs), e.b_star)]
    IN  vec_add(mean, y_noise)

fa_env_generate(e, xs, x_noise, y_noise) ==
    LET x_star_noise == vec_add(xs, x_noise)
        mean == [i \in 1..NRows(e.Theta_star) |->
                    FAdd(dot(e.Theta_star[i], x_star_noise), e.b_star)]
    IN  vec_add(mean, y_noise)

FaEnv == [Theta_star |-> np_eye(2), b_star |-> Zero]
FaXStar == <<F(2, 5), F(3, 5)>>
XNoiseSet == {<<Zero, Zero>>}
YNoiseSet == {<<Zero, Zero>>, <<F(1, 4), F(-1, 4)>>}

Diag2(a, b) == <<<<a, Zero>>, <<Zero, b>>>>
\* covariances the agent is built with: the notebook's 0.5 * eye, the
\* identity, a correlated one, a singular one; for cov_y two diagonal ones
\* and a negative definite one
CovXSet == {Diag2(F(1, 2), F(1, 2)), np_eye(2),
            <<<<Int2F(2), One>>, <<One, Int2F(2)>>>>,
            <<<<One, One>>, <<One, One>>>>}
CovYSet == {Diag2(F(3, 4), F(1, 2)), np_eye(2), Diag2(Int2F(-2), Int2F(-2))}
MuXSet == {<<F(1, 2), F(1, 2)>>}
NParamSet == {1, 2}

\* the outcome of multivariate_normal.pdf(grid, mean, cov): scipy decomposes
\* the symmetric matrix read from the lower triangle of cov and refuses one
\* with a negative eigenvalue (ValueError) or a zero one (LinAlgError).  The
\* signs of the eigenvalues are taken from the determinant and the trace.
mvn_pdf_outcome(cov) ==
    LET a == cov[1][1]
        b == cov[2][1]
        c == cov[2][2]
        det == FSub(FMul(a, c), FMul(b, b))
        tr  == FAdd(a, c)
    IN  IF ~(IsFin(a) /\ IsFin(b) /\ IsFin(c)) THEN "ValueError"
        ELSE IF Sign(det) < 0 \/ Sign(tr) < 0 THEN "ValueError"
        ELSE IF Sign(det) = 0 THEN "LinAlgError"
        ELSE ""

\* a slip: the sample count left out of the posterior precision
fa_cov_posterior_noN(Pi_x, Pi_y, N) == inv(mat_add(Pi_x, Pi_y))

\* inv(Pi_x + self.params.N * Pi_y)
fa_cov_posterior(Pi_x, Pi_y, N) == inv(mat_add(Pi_x, mat_scale(Int2F(N), Pi_y)))

\* cov_posterior @ (Pi_y @ (N * np.mean(y, axis=0)) + Pi_x @ mu_x)
fa_mean_posterior(cov_posterior, Pi_x, Pi_y, N, yy, mu_x) ==
    matvec(cov_posterior,
           vec_add(matvec(Pi_y, vec_scale(Int2F(N), mean_axis0(yy))),
                   matvec(Pi_x, mu_x)))

\* a slip: the error of a failed inversion swallowed, the call carried on
FaRaised_swallowed(a, err, at) ==
    [a EXCEPT !.status = "done", !.cov_posterior = np_eye(2),
              !.mean_posterior = a.mu_x]

\* the call raised err in the statement at
FaRaised(a, err, at) == [a EXCEPT !.status = err, !.raised_in = at]

\* FactorAnalysisAgent.infer_states(y): the agent after the call
infer_states(a, yy) ==
    Bind(inv(a.cov_x), LAMBDA Pi_x :
    IF Pi_x.err # "" THEN FaRaised(a, Pi_x.err, "Pi_x") ELSE
    Bind(inv(a.cov_y), LAMBDA Pi_y :
    IF Pi_y.err # "" THEN FaRaised(a, Pi_y.err, "Pi_y") ELSE
    Bind(fa_cov_posterior(Pi_x.val, Pi_y.val, a.N), LAMBDA cp :
    IF cp.err # "" THEN FaRaised(a, cp.err, "cov_posterior") ELSE
    Bind(fa_mean_posterior(cp.val, Pi_x.val, Pi_y.val, a.N, yy, a.mu_x), LAMBDA mp :
    Bind([a EXCEPT !.cov_posterior = cp.val, !.mean_posterior = mp], LAMBDA set :
    Bind(mvn_pdf_outcome(cp.val), LAMBDA pdf :
    IF pdf # "" THEN FaRaised(set, pdf, "posterior")
    ELSE [set EXCEPT !.posterior = "density", !.status = "done"]))))))

\* the variables of the scalar notebooks, in a session without them
IdleScalar ==
    /\ env = [beta_0_star |-> 0, beta_1_star |-> 0, y_star_std |-> 0]
    /\ x_star = None
    /\ y = <<>>
    /\ agents = {}
    /\ inferred = {}
    /\ round = 0
    /\ mle_agent = NoScalarAgent /\ map_agent = NoScalarAgent
    /\ last = NoLast /\ plot = NoPlot
    /\ exact_agent = NoAgent

InitFA ==
    /\ IdleExtra
    /\ IdleScalar
    /\ Ydata = <<>>
    /\ \E cx \in CovXSet, cy \in CovYSet, mu \in MuXSet, N \in NParamSet :
          fa_agent = [status |-> "idle", raised_in |-> "", cov_x |-> cx,
                      cov_y |-> cy, mu_x |-> mu, N |-> N,
                      cov_posterior |-> <<>>, mean_posterior |-> <<>>,
                      posterior |-> "unset"]
    /\ em_agent = NoMatrixAgent
    /\ em_pc = "none"
    /\ em_run = NoMatrixAgent

\* for idx in range(N): y[idx] = env.generate(x_star)
FA_Generate ==
    /\ fa_agent.status = "idle"
    /\ Ydata = <<>>
    /\ \E n \in 1..MaxRows :
          \E xn \in [1..n -> XNoiseSet], yn \in [1..n -> YNoiseSet] :
              Ydata' = [i \in 1..n |-> fa_env_generate(FaEnv, FaXStar, xn[i], yn[i])]
    /\ UNCHANGED <<session_vars, scalar_vars, grid_vars, fa_agent, em_agent, em_pc, em_run, extra_vars>>

\* agent.infer_states(y)
FA_infer_states ==
    /\ fa_agent.status = "idle"
    /\ Ydata # <<>>
    /\ fa_agent' = infer_states(fa_agent, Ydata)
    /\ UNCHANGED <<session_vars, scalar_vars, grid_vars, Ydata, em_agent, em_pc, em_run, extra_vars>>

NextFA == FA_Generate \/ FA_infer_states

SpecFA == InitFA /\ [][NextFA]_vars

(***************************************************************************)
(* Properties of FactorAnalysisAgent, against exact 2 x 2 matrix algebra   *)
(***************************************************************************)
QMatOf(A) == [i \in 1..NRows(A) |-> [j \in 1..NCols(A) |-> QOf(A[i][j])]]
QVecOf(v) == [i \in 1..Len(v) |-> QOf(v[i])]
QDet2(A) == QSub(QMul(A[1][1], A[2][2]), QMul(A[1][2], A[2][1]))
QInv2(A) ==
    LET d == QDet2(A)
    IN  <<<<QDiv(A[2][2], d), QNeg(QDiv(A[1][2], d))>>,
          <<QNeg(QDiv(A[2][1], d)), QDiv(A[1][1], d)>>>>
QVecAdd(u, v) == [i \in 1..Len(u) |-> QAdd(u[i], v[i])]
QVecScale(c, v) == [i \in 1..Len(v) |-> QMul(c, v[i])]
QMatAdd(A, B) == [i \in 1..Len(A) |-> QVecAdd(A[i], B[i])]
QMatScale(c, A) == [i \in 1..Len(A) |-> QVecScale(c, A[i])]
QMatVec(A, v) ==
    [i \in 1..Len(A) |-> QAdd(QMul(A[i][1], v[1]), QMul(A[i][2], v[2]))]
QMax(a, b) == IF QLt(a, b) THEN b ELSE a
QVecNorm(v) == QMax(QAbs(v[1]), QAbs(v[2]))
QMatNorm(A) == QMax(QVecNorm(A[1]), QVecNorm(A[2]))
\* the mean of the rows of a two-column array
QMeanAxis0(yy) == <<QMean([i \in 1..Len(yy) |-> yy[i][1]]),
                    QMean([i \in 1..Len(yy) |-> yy[i][2]])>>
Invertible(A) == QDet2(QMatOf(A)).n # 0

\* the exact cov_x^-1 + N * cov_y^-1 of the agent, and the exact moments
ExactPrecision ==
    QMatAdd(QInv2(QMatOf(fa_agent.cov_x)),
            QMatScale(QInt(fa_agent.N), QInv2(QMatOf(fa_agent.cov_y))))
ExactCovPosterior == QInv2(ExactPrecision)
ExactMeanPosterior ==
    QMatVec(ExactCovPosterior,
            QVecAdd(QMatVec(QInv2(QMatOf(fa_agent.cov_y)),
                            QVecScale(QInt(fa_agent.N), QMeanAxis0(Ydata))),
                    QMatVec(QInv2(QMatOf(fa_agent.cov_x)), QVecOf(fa_agent.mu_x))))
\* the moments as the floating-point operations of infer_states give them
FloatPrecision ==
    mat_add(inv(fa_agent.cov_x).val,
            mat_scale(Int2F(fa_agent.N), inv(fa_agent.cov_y).val))
FloatMeanPosterior ==
    matvec(fa_agent.cov_posterior,
           vec_add(matvec(inv(fa_agent.cov_y).val,
                          vec_scale(Int2F(fa_agent.N), mean_axis0(Ydata))),
                   matvec(inv(fa_agent.cov_x).val, fa_agent.mu_x)))
InferStatesCalled == fa_agent.status \notin {"none", "idle"}
InvertibleCovs == Invertible(fa_agent.cov_x) /\ Invertible(fa_agent.cov_y)
MomentsSet == fa_agent.cov_posterior # <<>> /\ fa_agent.mean_posterior # <<>>
\* every entry of the float array within k units of the largest exact entry
MatWithin(A, Q, k) ==
    \A i \in 1..2, j \in 1..2 :
        QLe(QAbs(QSub(QOf(A[i][j]), Q[i][j])), QMul(U(k), QMatNorm(Q)))
VecWithin(v, q, k) ==
    \A i \in 1..2 : QLe(QAbs(QSub(QOf(v[i]), q[i])), QMul(U(k), QVecNorm(q)))

MaxJ == 3            \* largest number of iterations J

At(arr, j) == arr[j + 1]
Put(arr, j, v) == [arr EXCEPT ![j + 1] = v]

\* np.cov(Y) for the rows of Y as variables: deviations from the row means,
\* their products summed, scaled by 1 / (N - 1)
np_cov(Y) ==
    Bind(mean_axis1(Y), LAMBDA avg :
    Bind([i \in 1..NRows(Y) |-> [n \in 1..NCols(Y) |-> FSub(Y[i][n], avg[i])]],
         LAMBDA X :
    LET fact == IF NCols(Y) > 1 THEN NCols(Y) - 1 ELSE 0
    IN  mat_scale(FDiv(One, Int2F(fact)), matmul(X, mat_T(X)))))

\* a slip in the loop of run_EM: the last iteration left out
loop_continues_short(j, J) == j < J - 1
\* for j in range(self.J): there is a next j
loop_continues(j, J) == j < J

\* a slip in the M-step: the new estimates stored over the current ones
next_index_in_place(j) == j
\* the index of self.Theta[j+1] = ... and self.cov_y[j+1] = ...
next_index(j) == j + 1

\* FactorAnalysisEMAgent.__init__(params): zero arrays, the initial
\* parameters at index 0
em_init(params) ==
    [J |-> params.J, C |-> params.C, D |-> params.D,
     Theta_init |-> params.Theta_init, cov_y_init |-> params.cov_y_init,
     posterior_mean |-> [j \in 1..params.J |-> [c \in 1..params.C |-> Zero]],
     posterior_cov  |-> [j \in 1..params.J |-> np_zeros(params.C, params.C)],
     Theta |-> Put([j \in 1..params.J |-> np_zeros(params.D, params.C)],
                   0, params.Theta_init),
     cov_y |-> Put([j \in 1..params.J |-> np_zeros(params.D, params.D)],
                   0, params.cov_y_init),
     posterior_mean_s |-> <<>>,
     S |-> <<>>]

\* a slip in the E-step: the average posterior mean added to the entry
\* instead of stored in it
em_infer_states_accumulating(a, Y, j, C) ==
    Bind(At(a.Theta, j), LAMBDA Theta_j :
    Bind(inv(mat_add(matmul(Theta_j, mat_T(Theta_j)), At(a.cov_y, j))),
         LAMBDA inverse :
    IF inverse.err # "" THEN Raised(inverse.err) ELSE
    Bind(matmul(mat_T(Theta_j), inverse.val), LAMBDA beta :
    Bind(matmul(beta, Y), LAMBDA posterior_mean_s :
    Returned(
      [a EXCEPT !.posterior_mean_s = posterior_mean_s,
                !.posterior_cov = Put(@, j, mat_sub(np_eye(C),
                                           matmul(beta, Theta_j))),
                !.posterior_mean = Put(@, j,
                    vec_add(At(a.posterior_mean, j),
                            mean_axis1(posterior_mean_s)))])))))

\* _infer_states(Y, j), with the global C of the notebook: the agent after
\* the E-step, or the error inv raised
em_infer_states(a, Y, j, C) ==
    Bind(At(a.Theta, j), LAMBDA Theta_j :
    Bind(inv(mat_add(matmul(Theta_j, mat_T(Theta_j)), At(a.cov_y, j))),
         LAMBDA inverse :
    IF inverse.err # "" THEN Raised(inverse.err) ELSE
    Bind(matmul(mat_T(Theta_j), inverse.val), LAMBDA beta :
    Bind(matmul(beta, Y), LAMBDA posterior_mean_s :
    Returned(
      [a EXCEPT !.posterior_mean_s = posterior_mean_s,
                !.posterior_cov = Put(@, j, mat_sub(np_eye(C),
                                           matmul(beta, Theta_j))),
                !.posterior_mean = Put(@, j, mean_axis1(posterior_mean_s))])))))

\* a slip in the guard of the M-step: the entry of the last iteration is
\* left unwritten as well
writes_next_short(j, J) == j + 2 < J
\* if j+1 < self.J: the M-step stores the estimates of the next iteration
writes_next(j, J) == j + 1 < J

\* a slip in the M-step: cov_y[j+1] computed from Theta[j], the estimate the
\* iteration started with
em_learn_parameters_stale_theta(a, Y, j, N) ==
    Bind(matmul(Y, mat_T(a.posterior_mean_s)), LAMBDA delta :
    Bind(mat_add(matmul(a.posterior_mean_s, mat_T(a.posterior_mean_s)),
                 mat_scale(Int2F(N), At(a.posterior_cov, j))), LAMBDA gamma :
    IF ~writes_next(j, a.J) THEN Returned(a) ELSE
    Bind(inv(gamma), LAMBDA inverse :
    IF inverse.err # "" THEN Raised(inverse.err) ELSE
    Bind(matmul(delta, inverse.val), LAMBDA Theta_next :
    Bind(diag_diag(mat_sub(a.S,
             mat_div(matmul(At(a.Theta, j), mat_T(delta)), Int2F(N)))),
         LAMBDA cov_y_next :
    Returned([a EXCEPT !.Theta = Put(@, next_index(j), Theta_next),
                       !.cov_y = Put(@, next_index(j), cov_y_next)]))))))

\* _learn_parameters(Y, j), with the global N of the notebook: the agent
\* after the M-step, or the error inv raised
em_learn_parameters(a, Y, j, N) ==
    Bind(matmul(Y, mat_T(a.posterior_mean_s)), LAMBDA delta :
    Bind(mat_add(matmul(a.posterior_mean_s, mat_T(a.posterior_mean_s)),
                 mat_scale(Int2F(N), At(a.posterior_cov, j))), LAMBDA gamma :
    IF ~writes_next(j, a.J) THEN Returned(a) ELSE
    Bind(inv(gamma), LAMBDA inverse :
    IF inverse.err # "" THEN Raised(inverse.err) ELSE
    Bind(matmul(delta, inverse.val), LAMBDA Theta_next :
    Bind(diag_diag(mat_sub(a.S,
             mat_div(matmul(Theta_next, mat_T(delta)), Int2F(N)))),
         LAMBDA cov_y_next :
    Returned([a EXCEPT !.Theta = Put(@, next_index(j), Theta_next),
                       !.cov_y = Put(@, next_index(j), cov_y_next)]))))))

\* the data and the initial parameters the model draws: two channels (rows of
\* Y, rows of Theta) and one hidden state (columns of Theta)
EmYSet == {<<<<One, Int2F(-1)>>, <<Int2F(-1), One>>>>,
           <<<<One, Int2F(-1), Zero>>, <<Zero, One, Int2F(-1)>>>>,
           <<<<Zero, Zero>>, <<Zero, Zero>>>>,
           <<<<One, Int2F(2)>>, <<Int2F(3), Int2F(5)>>>>}
ThetaInitSet == {<<<<One>>, <<One>>>>, <<<<F(1, 2)>>, <<Int2F(-1)>>>>,
                 <<<<Zero>>, <<Zero>>>>}
CovYInitSet == {np_eye(2), <<<<One, F(1, 2)>>, <<F(1, 2), One>>>>,
                Diag2(Zero, One), np_zeros(2, 2)}
NGlobalSet == {2, 3}

\* the count of writes to each entry of the four arrays during run_EM
NoWrites(J) ==
    [Theta |-> [j \in 1..J |-> 0], cov_y |-> [j \in 1..J |-> 0],
     posterior_mean |-> [j \in 1..J |-> 0], posterior_cov |-> [j \in 1..J |-> 0]]

InitEM ==
    /\ IdleExtra
    /\ IdleScalar
    /\ fa_agent = NoMatrixAgent
    /\ Ydata \in EmYSet
    /\ \E J \in 1..MaxJ, Theta_init \in ThetaInitSet, cov_y_init \in CovYInitSet :
          em_agent = em_init([J |-> J, C |-> NCols(Theta_init),
                              D |-> NRows(Theta_init),
                              Theta_init |-> Theta_init, cov_y_init |-> cov_y_init])
    /\ em_pc = "idle"
    /\ \E N \in NGlobalSet :
          em_run = [j |-> 0, err |-> "", N |-> N, C |-> em_agent.C,
                    steps |-> <<>>, writes |-> NoWrites(em_agent.J)]

\* agent.run_EM(Y), up to the loop: self.S = np.cov(Y)
run_EM ==
    /\ em_pc = "idle"
    /\ em_agent' = [em_agent EXCEPT !.S = np_cov(Ydata)]
    /\ em_pc' = IF loop_continues(0, em_agent.J) THEN "E" ELSE "done"
    /\ UNCHANGED <<session_vars, scalar_vars, grid_vars, Ydata, fa_agent, em_run, extra_vars>>

\* the loop body, first statement: self._infer_states(Y, j=j)
EM_infer_states ==
    /\ em_pc = "E"
    /\ \E res \in {em_infer_states(em_agent, Ydata, em_run.j, em_run.C)} :
          IF res.err # ""
          THEN /\ em_pc' = "raised"
               /\ em_run' = [em_run EXCEPT !.err = res.err]
               /\ UNCHANGED em_agent
          ELSE /\ em_agent' = res.val
               /\ em_pc' = "M"
               /\ em_run' = [em_run EXCEPT
                    !.steps = Append(@, <<"E", em_run.j>>),
                    !.writes.posterior_cov[em_run.j + 1] = @ + 1,
                    !.writes.posterior_mean[em_run.j + 1] = @ + 1]
    /\ UNCHANGED <<session_vars, scalar_vars, grid_vars, Ydata, fa_agent, extra_vars>>

\* the loop body, second statement: self._learn_parameters(Y, j=j), and the
\* step of the loop
EM_learn_parameters ==
    /\ em_pc = "M"
    /\ \E res \in {em_learn_parameters(em_agent, Ydata, em_run.j, em_run.N)} :
          IF res.err # ""
          THEN /\ em_pc' = "raised"
               /\ em_run' = [em_run EXCEPT !.err = res.err]
               /\ UNCHANGED em_agent
          ELSE /\ em_agent' = res.val
               /\ em_pc' = IF loop_continues(em_run.j + 1, em_agent.J)
                          THEN "E" ELSE "done"
               /\ em_run' = [em_run EXCEPT
                    !.j = @ + 1,
                    !.steps = Append(@, <<"M", em_run.j>>),
                    !.writes.Theta =
                        IF em_run.j + 1 < em_agent.J
                        THEN [@ EXCEPT ![next_index(em_run.j) + 1] = @ + 1] ELSE @,
                    !.writes.cov_y =
                        IF em_run.j + 1 < em_agent.J
                        THEN [@ EXCEPT ![next_index(em_run.j) + 1] = @ + 1] ELSE @]
    /\ UNCHANGED <<session_vars, scalar_vars, grid_vars, Ydata, fa_agent, extra_vars>>

NextEM == run_EM \/ EM_infer_states \/ EM_learn_parameters

SpecEM == InitEM /\ [][NextEM]_vars

\* control moves on: the position of a run that has neither returned nor
\* raised changes (every step of NextEM changes it)
EM_Moves ==
    /\ em_pc \in {"idle", "E", "M"}
    /\ em_pc' \in {"E", "M", "done", "raised"}
    /\ em_pc' # em_pc

\* run_EM keeps running until it returns or raises
SpecEMFair == SpecEM /\ WF_em_pc(EM_Moves)

(***************************************************************************)
(* Properties of run_EM                                                    *)
(***************************************************************************)
\* the i-th step of a run: E-step and M-step of j = 0, 1, ... in turn
ExpectedStep(i) == <<IF i % 2 = 1 THEN "E" ELSE "M", (i - 1) \div 2>>
StepsInOrder ==
    \A i \in 1..Len(em_run.steps) : em_run.steps[i] = ExpectedStep(i)
RunEnded == em_pc \in {"done", "raised"}
\* the matrix whose inversion the step after the recorded ones starts with
PendingInversion ==
    IF Len(em_run.steps) % 2 = 0
    THEN LET Theta_j == At(em_agent.Theta, em_run.j)
         IN  mat_add(matmul(Theta_j, mat_T(Theta_j)), At(em_agent.cov_y, em_run.j))
    ELSE mat_add(matmul(em_agent.posterior_mean_s, mat_T(em_agent.posterior_mean_s)),
                 mat_scale(Int2F(em_run.N), At(em_agent.posterior_cov, em_run.j)))
ExactlySingular(A) ==
    IF NRows(A) = 1 THEN A[1][1] = Zero ELSE ~Invertible(A)

\* C2 as stated: run_EM always ends after exactly J iterations, E-step then
\* M-step for j = 0 .. J-1 in order.
C2_Original ==
    RunEnded => (Len(em_run.steps) = 2 * em_agent.J /\ StepsInOrder)

\* C2 amended: run_EM always ends.  It runs E-step then M-step for
\* j = 0, 1, ... in order, and returns after exactly J iterations unless a
\* matrix inversion raises LinAlgError on a singular matrix, which ends the
\* run in that step; nothing else ends the loop earlier or prolongs it.
C2_RunEMEnds ==
    /\ [](/\ StepsInOrder
          /\ Len(em_run.steps) <= 2 * em_agent.J
          /\ em_pc = "done" => Len(em_run.steps) = 2 * em_agent.J
          /\ em_pc \in {"E", "M"} => Len(em_run.steps) < 2 * em_agent.J
          /\ em_pc = "raised" =>
                /\ em_run.err = "LinAlgError"
                /\ Len(em_run.steps) < 2 * em_agent.J
                /\ ExactlySingular(PendingInversion))
    /\ <>RunEnded

C2_Witness ==
    /\ em_pc = "done"
    /\ em_agent.J = 3
    /\ em_run.steps = <<<<"E", 0>>, <<"M", 0>>, <<"E", 1>>, <<"M", 1>>,
                        <<"E", 2>>, <<"M", 2>>>>
    /\ At(em_agent.Theta, 2) # At(em_agent.Theta, 1)

\* C3: during run_EM every entry of Theta, cov_y, posterior_mean and
\* posterior_cov is written at most once, the entries of index 0 of Theta and
\* cov_y are never written and keep the caller's initial values; a step changes
\* only the entries of its own iteration (index j for the E-step, j + 1 for the
\* M-step) and j never decreases.
C3_WrittenOnce ==
    /\ [](/\ \A i \in 1..em_agent.J :
                /\ em_run.writes.Theta[i] <= 1
                /\ em_run.writes.cov_y[i] <= 1
                /\ em_run.writes.posterior_mean[i] <= 1
                /\ em_run.writes.posterior_cov[i] <= 1
          /\ em_run.writes.Theta[1] = 0 /\ em_run.writes.cov_y[1] = 0
          /\ At(em_agent.Theta, 0) = em_agent.Theta_init
          /\ At(em_agent.cov_y, 0) = em_agent.cov_y_init)
    /\ [][/\ em_run'.j >= em_run.j
          /\ \A i \in 1..em_agent.J :
                /\ (em_agent'.Theta[i] # em_agent.Theta[i]
                    \/ em_agent'.cov_y[i] # em_agent.cov_y[i]) =>
                       (em_pc = "M" /\ i = em_run.j + 2)
                /\ (em_agent'.posterior_mean[i] # em_agent.posterior_mean[i]
                    \/ em_agent'.posterior_cov[i] # em_agent.posterior_cov[i]) =>
                       (em_pc = "E" /\ i = em_run.j + 1)]_vars

C3_Witness ==
    /\ em_pc = "done"
    /\ em_agent.J = 3
    /\ em_run.writes.Theta = <<0, 1, 1>> /\ em_run.writes.cov_y = <<0, 1, 1>>
    /\ em_run.writes.posterior_mean = <<1, 1, 1>>
    /\ At(em_agent.Theta, 1) # em_agent.Theta_init
    /\ At(em_agent.cov_y, 2) # At(em_agent.cov_y, 1)
    /\ em_agent.cov_y_init # np_zeros(2, 2)

IsDiagonal(A) ==
    \A i \in 1..NRows(A), j \in 1..NCols(A) : i # j => A[i][j] = Zero

\* C4: at every point of run_EM, hence after it, cov_y[j] is a diagonal matrix
\* for every index 1 <= j < J, whatever Y and the initial Theta and cov_y.
C4_CovYDiagonal ==
    \A j \in 1..(em_agent.J - 1) : IsDiagonal(At(em_agent.cov_y, j))

C4_Witness ==
    /\ em_pc = "done"
    /\ em_agent.J = 3
    /\ ~IsDiagonal(em_agent.cov_y_init)
    /\ ~IsDiagonal(em_agent.S)
    /\ At(em_agent.cov_y, 1)[1][1] # Zero /\ At(em_agent.cov_y, 2)[2][2] # Zero



(***************************************************************************)
(* Failed inversions, in both factor analysis agents                       *)
(***************************************************************************)
\* a session of either notebook
InitMatrix == InitFA \/ InitEM
NextMatrix == NextFA \/ NextEM
SpecMatrix == InitMatrix /\ [][NextMatrix]_vars

\* the inversion the next statement of the session performs, if it performs
\* one, fails
FaInversionFails ==
    /\ fa_agent.status = "idle" /\ Ydata # <<>>
    /\ \/ inv(fa_agent.cov_x).err # ""
       \/ inv(fa_agent.cov_y).err # ""
       \/ inv(FloatPrecision).err # ""
EmInversionFails ==
    \/ em_pc = "E" /\ inv(PendingInversion).err # ""
    \/ /\ em_pc = "M" /\ em_run.j + 1 < em_agent.J
       /\ inv(PendingInversion).err # ""
FaRaisedInInversion ==
    /\ fa_agent.status = "LinAlgError"
    /\ fa_agent.raised_in \in {"Pi_x", "Pi_y", "cov_posterior"}

\* C11: a failed inversion in infer_states or in iteration j of run_EM ends
\* the call with the error: the step that fails writes nothing (the moments
\* of the agent, the arrays of the EM agent and the loop index keep their
\* values), and no step follows a call that raised.
C11_FailedInversionSurfaces ==
    [][/\ em_pc # "raised"
       /\ fa_agent.status \in {"none", "idle"}
       /\ FaInversionFails =>
             /\ FaRaisedInInversion'
             /\ fa_agent' = [fa_agent EXCEPT !.status = "LinAlgError",
                                             !.raised_in = fa_agent'.raised_in]
       /\ FaRaisedInInversion' => FaInversionFails
       /\ EmInversionFails =>
             /\ em_pc' = "raised" /\ em_run'.err = "LinAlgError"
             /\ em_agent' = em_agent
             /\ em_run' = [em_run EXCEPT !.err = "LinAlgError"]
       /\ em_pc' = "raised" => EmInversionFails]_vars

\* run_EM raised in an iteration after the first
C11_Witness ==
    em_pc = "raised" /\ em_run.err = "LinAlgError" /\ em_run.j >= 1


(***************************************************************************)
(* The gradient descent agents of the gradient descent notebook:           *)
(* create_agent("linear_gradient_descent_mle_agent" or "..._map_agent"),   *)
(* infer_state(y), store_history(), get_history().  The notebook gives the *)
(* calls and the parameters; the agent is the estimator of section 4.6.    *)
(***************************************************************************)
MaxIter == 3         \* largest n_iterations

GdKappaSet == {F(1, 16), F(1, 8), One}
GdXInitSet == {Int2F(5), F(9, 4)}
GdStdYSet == {F(1, 2), One}
GdMxSet == {Int2F(2), Int2F(4)}
GdYValues == {Int2F(7), F(29, 4)}
GdYSet == UNION {[1..n -> GdYValues] : n \in 1..MaxN}

\* create_agent(name, params)
gd_create(prior, kappa, n, x_init, std_y, m_x) ==
    [prior |-> prior, kappa |-> kappa, n_iterations |-> n, x_init |-> x_init,
     beta_0 |-> Int2F(3), beta_1 |-> Int2F(2), std_y |-> std_y,
     m_x |-> m_x, s_x |-> F(1, 2),
     y |-> <<>>, x |-> x_init,
     x_history |-> <<>>, loss_history |-> <<>>, estimate |-> None]

\* -log N(v; loc, scale) = (v - loc)^2 / (2 scale^2) + ln(scale sqrt(2 pi))
neg_log_normal(v, loc, scale) ==
    FAdd(FDiv(FMul(FSub(v, loc), FSub(v, loc)),
              FMul(Int2F(2), FMul(scale, scale))),
         LnNorm(scale))

\* a slip: the sign of the derivative lost
d_neg_log_normal_unsigned(v, loc, scale) ==
    FDiv(FSub(v, loc), FMul(scale, scale))

\* d/dloc of -log N(v; loc, scale) = -(v - loc) / scale^2
d_neg_log_normal(v, loc, scale) ==
    FNeg(FDiv(FSub(v, loc), FMul(scale, scale)))

gd_predict(a, x) == FAdd(a.beta_0, FMul(a.beta_1, x))

\* the loss: the negative log-likelihood summed over all samples, plus the
\* negative log-prior if a prior is configured
gd_loss(a, x) ==
    Bind(gd_predict(a, x), LAMBDA mu :
    Bind(FSum([k \in 1..Len(a.y) |-> neg_log_normal(a.y[k], mu, a.std_y)]),
         LAMBDA nll :
    IF a.prior THEN FAdd(nll, neg_log_normal(x, a.m_x, a.s_x)) ELSE nll))

\* the gradient of the loss with respect to x, as reverse-mode
\* differentiation accumulates it: d mu / dx = beta_1
gd_grad(a, x) ==
    Bind(gd_predict(a, x), LAMBDA mu :
    Bind(FMul(FSum([k \in 1..Len(a.y) |->
                        d_neg_log_normal(a.y[k], mu, a.std_y)]),
              a.beta_1), LAMBDA g :
    \* the density of the prior is symmetric in x and m_x
    IF a.prior THEN FAdd(g, d_neg_log_normal(a.m_x, x, a.s_x)) ELSE g))

\* the update x <- x - kappa * grad
gd_update(a, x) == FSub(x, FMul(a.kappa, gd_grad(a, x)))

\* a slip: the loop stopped as soon as a step does not lower the loss
gd_loop_continues_while_improving(a, i) ==
    IF i < a.n_iterations /\ a.loss_history # <<>>
    THEN FLt(gd_loss(a, a.x), a.loss_history[Len(a.loss_history)])
    ELSE i < a.n_iterations

\* for i in range(n_iterations): no other test ends the loop
gd_loop_continues(a, i) == i < a.n_iterations

\* a slip: the history attributes reassigned to the current values only
gd_step_reassigning(a) ==
    Bind(gd_loss(a, a.x), LAMBDA loss :
    Bind(gd_update(a, a.x), LAMBDA x_next :
    [a EXCEPT !.x = x_next, !.x_history = <<x_next>>,
              !.loss_history = <<loss>>]))

\* one iteration: loss, gradient, update, the current x and loss appended
gd_step(a) ==
    Bind(gd_loss(a, a.x), LAMBDA loss :
    Bind(gd_update(a, a.x), LAMBDA x_next :
    [a EXCEPT !.x = x_next,
              !.x_history = Append(a.x_history, x_next),
              !.loss_history = Append(a.loss_history, loss)]))

InitGD ==
    /\ IdleScalar /\ IdleMatrix
    /\ reg_agent = NoMatrixAgent /\ env_obj = NoMatrixAgent
    /\ \E prior \in BOOLEAN, kappa \in GdKappaSet, n \in 1..MaxIter,
          x_init \in GdXInitSet, std_y \in GdStdYSet, m_x \in GdMxSet :
          /\ ~prior => m_x = Int2F(2)
          /\ gd_agent = gd_create(prior, kappa, n, x_init, std_y, m_x)
    /\ gd_pc = [status |-> "initialized", i |-> 0]

gd_frame == UNCHANGED <<session_vars, scalar_vars, grid_vars, matrix_vars,
                        reg_agent, env_obj>>

\* agent.infer_state(y): enters the loop
GD_infer_state ==
    /\ gd_pc.status = "initialized"
    /\ \E yy \in GdYSet : gd_agent' = [gd_agent EXCEPT !.y = yy]
    /\ gd_pc' = [gd_pc EXCEPT !.status = "running"]
    /\ gd_frame

\* one pass of the loop body
GD_step ==
    /\ gd_pc.status = "running"
    /\ gd_loop_continues(gd_agent, gd_pc.i)
    /\ gd_agent' = gd_step(gd_agent)
    /\ gd_pc' = [gd_pc EXCEPT !.i = @ + 1]
    /\ gd_frame

\* the loop is over: the final x is the estimate
GD_return ==
    /\ gd_pc.status = "running"
    /\ ~gd_loop_continues(gd_agent, gd_pc.i)
    /\ gd_agent' = [gd_agent EXCEPT !.estimate = gd_agent.x]
    /\ gd_pc' = [gd_pc EXCEPT !.status = "finished"]
    /\ gd_frame

NextGD == GD_infer_state \/ GD_step \/ GD_return
SpecGD == InitGD /\ [][NextGD]_vars

\* control moves on: the loop counter or the state of a running call changes
\* (every step of a running call changes one of them)
GD_Moves ==
    /\ gd_pc.status = "running"
    /\ gd_pc' \in [status : {"running", "finished"}, i : 0..MaxIter + 1]
    /\ gd_pc' # gd_pc

\* infer_state is one synchronous call: its loop runs to completion
SpecGDFair == SpecGD /\ WF_gd_pc(GD_Moves)

\* the exact value of a float of the trajectory
GdExact(v) == QOf(v)

\* C12: the gradient descent estimator goes initialized -> running ->
\* finished; while fewer than n_iterations updates are done the only move is
\* one more update x <- x - kappa * grad(loss), whatever the step size, the
\* start and the loss are; the terminal state is entered after exactly
\* n_iterations updates, is never left, and every call of infer_state reaches
\* it: no run stops early and none ends in an error
C12_RunsExactlyNIterations ==
    /\ [][/\ gd_pc.status = "initialized" =>
                /\ gd_pc' = [status |-> "running", i |-> 0]
                /\ gd_agent'.x = gd_agent.x_init
          /\ gd_pc.status = "running" /\ gd_pc.i < gd_agent.n_iterations =>
                /\ gd_pc' = [status |-> "running", i |-> gd_pc.i + 1]
                /\ gd_agent'.x = FSub(gd_agent.x,
                                      FMul(gd_agent.kappa,
                                           gd_grad(gd_agent, gd_agent.x)))
          /\ gd_pc.status = "running" /\ gd_pc.i >= gd_agent.n_iterations =>
                /\ gd_pc' = [status |-> "finished", i |-> gd_agent.n_iterations]
                /\ gd_agent'.x = gd_agent.x
          \* the terminal state is never left, the agent no longer changes
          /\ gd_pc.status # "finished"
          /\ gd_pc'.status \in {"initialized", "running", "finished"}
         ]_<<gd_pc, gd_agent>>
    /\ (gd_pc.status = "running") ~>
          (gd_pc.status = "finished" /\ gd_pc.i = gd_agent.n_iterations)

\* a run with a step size far too large has finished: its x has left the
\* data's range by orders of magnitude after all its iterations
C12_Witness ==
    /\ gd_pc.status = "finished"
    /\ gd_agent.n_iterations >= 2
    /\ gd_pc.i = gd_agent.n_iterations
    /\ gd_agent.estimate.k = "fin"
    /\ QLt(QInt(100), QAbs(GdExact(gd_agent.estimate)))

IsPrefix(h, g) == Len(h) <= Len(g) /\ SubSeq(g, 1, Len(h)) = h

\* C13: in every state of a gradient descent run the history of x and the
\* history of the loss have the same length, the number of steps taken so
\* far; a step appends one entry to each and changes no earlier entry; when
\* the run ends both hold n_iterations entries and the estimate returned is
\* the final x
C13_HistoriesGrowTogether ==
    /\ [](/\ Len(gd_agent.x_history) = gd_pc.i
          /\ Len(gd_agent.loss_history) = gd_pc.i
          /\ gd_pc.status = "finished" =>
                /\ gd_pc.i = gd_agent.n_iterations
                /\ gd_agent.estimate = gd_agent.x)
    /\ [][/\ IsPrefix(gd_agent.x_history, gd_agent'.x_history)
          /\ IsPrefix(gd_agent.loss_history, gd_agent'.loss_history)
          /\ Len(gd_agent'.x_history) <= Len(gd_agent.x_history) + 1
          /\ gd_pc'.i = gd_pc.i + 1 =>
                /\ gd_agent'.x_history = Append(gd_agent.x_history, gd_agent'.x)
                /\ Len(gd_agent'.loss_history) = gd_pc.i + 1
         ]_<<gd_pc, gd_agent>>

\* a run of at least three iterations has ended
C13_Witness ==
    /\ gd_pc.status = "finished"
    /\ gd_pc.i >= 3
    /\ Len(gd_agent.x_history) = gd_pc.i
    /\ Len(gd_agent.loss_history) = gd_pc.i
    /\ gd_agent.x_history[1] # gd_agent.x_history[gd_pc.i]

(***************************************************************************)
(* The exact minimiser of the loss and the exact error of the trajectory   *)
(***************************************************************************)
QSq(q) == QMul(q, q)

\* the weight of the data and of the prior in the gradient: the gradient is
\* GdDataWeight * (x - MLE) + GdPriorWeight * (x - m_x)
GdDataWeight(a) ==
    QDiv(QMul(QInt(Len(a.y)), QSq(QOf(a.beta_1))), QSq(QOf(a.std_y)))
GdPriorWeight(a) == IF a.prior THEN QDiv(QInt(1), QSq(QOf(a.s_x))) ELSE QInt(0)

\* the closed-form MLE (mean(y) - beta_0) / beta_1
GdClosedFormMLE(a) == QDiv(QSub(QMean(a.y), QOf(a.beta_0)), QOf(a.beta_1))

\* the minimiser of the loss
GdMinimiser(a) ==
    QDiv(QAdd(QMul(GdDataWeight(a), GdClosedFormMLE(a)),
              QMul(GdPriorWeight(a), QOf(a.m_x))),
         QAdd(GdDataWeight(a), GdPriorWeight(a)))

\* the factor by which one exact update changes the distance from the
\* minimiser: |1 - kappa * weight|
GdFactor(a) ==
    QAbs(QSub(QInt(1), QMul(QOf(a.kappa),
                            QAdd(GdDataWeight(a), GdPriorWeight(a)))))

\* factor^n * dist <= bound (a distance above the bound that grows stays
\* above it)
RECURSIVE QShrinksTo(_, _, _, _)
QShrinksTo(factor, dist, n, bound) ==
    IF n = 0 THEN QLe(dist, bound)
    ELSE IF QLe(QInt(1), factor) /\ QLt(bound, dist) THEN FALSE
    ELSE QShrinksTo(factor, QMul(factor, dist), n - 1, bound)

Tolerance == Frac(1, 10)
\* the part of the tolerance left to the rounding of the floats
RoundingShare == Frac(1, 32)

\* the iteration budget suffices: exact updates end within the tolerance,
\* less the share left to rounding
GdBudgetSuffices(a) ==
    QShrinksTo(GdFactor(a), QAbs(QSub(QOf(a.x_init), GdMinimiser(a))),
               a.n_iterations, QSub(Tolerance, RoundingShare))

\* C14: without a prior, a gradient descent run whose iteration budget
\* suffices ends with a final x within 0.1 of the closed-form MLE
\* (mean(y) - beta_0) / beta_1
C14_GradientDescentReachesMLE ==
    /\ gd_pc.status = "finished"
    /\ ~gd_agent.prior
    /\ GdBudgetSuffices(gd_agent)
    => /\ gd_agent.estimate.k = "fin"
       /\ QLe(QAbs(QSub(QOf(gd_agent.estimate), GdClosedFormMLE(gd_agent))),
              Tolerance)

\* a run without a prior, of two or more steps none of which lands on the
\* optimum at once, has ended within its budget
C14_Witness ==
    /\ gd_pc.status = "finished"
    /\ ~gd_agent.prior
    /\ GdBudgetSuffices(gd_agent)
    /\ gd_pc.i >= 2
    /\ QMul(QOf(gd_agent.kappa), GdDataWeight(gd_agent)) # QInt(1)
    /\ gd_agent.x_history[1] # gd_agent.x_history[2]

\* the closed-form scalar MAP value
\* (beta_1 * (mean(y) - beta_0) + m_x) / (beta_1^2 + 1)
GdClosedFormMAP(a) ==
    QDiv(QAdd(QMul(QOf(a.beta_1), QSub(QMean(a.y), QOf(a.beta_0))), QOf(a.m_x)),
         QAdd(QSq(QOf(a.beta_1)), QInt(1)))

\* C15: with a Gaussian prior configured, a gradient descent run whose
\* iteration budget suffices ends with a final x within 0.1 of the
\* closed-form scalar MAP value
C15_GradientDescentReachesClosedFormMAP ==
    /\ gd_pc.status = "finished"
    /\ gd_agent.prior
    /\ GdBudgetSuffices(gd_agent)
    => /\ gd_agent.estimate.k = "fin"
       /\ QLe(QAbs(QSub(QOf(gd_agent.estimate), GdClosedFormMAP(gd_agent))),
              Tolerance)

(***************************************************************************)
(* 3a_supervised_linear_regression.ipynb: MultipleLinearRegressionAgent    *)
(***************************************************************************)
MaxSamples == 3      \* largest number of training samples

RegXValues == {Zero, One, Int2F(2)}
RegYValues == {Zero, One, Int2F(3)}
\* X_star of shape (N, 1) with its y of shape (N,)
RegTrainSet ==
    UNION {[X_star : [1..n -> [1..1 -> RegXValues]], y_train : [1..n -> RegYValues]]
           : n \in 1..MaxSamples}
RegNewSet == {<<<<One>>>>, <<<<Int2F(2)>>, <<Int2F(5)>>>>, <<<<F(1, 2)>>, <<Zero>>>>}

\* the columns u, v are multiples of one vector (exactly)
Parallel(u, v) ==
    \A i, j \in 1..Len(u) :
       QMul(QOf(u[i]), QOf(v[j])) = QMul(QOf(u[j]), QOf(v[i]))

\* np.linalg.pinv(X) for X of two columns c1, c2: V diag(1/s or 0) U^T of the
\* singular value decomposition, the singular values below the cutoff
\* dropped.  That is 0 for X = 0, X^T / |X|^2 for X of rank 1, and for X of
\* rank 2 the rows p1, p2 with p2 = d / |d|^2 for the part d of c2
\* orthogonal to c1, and p1 = c1 / |c1|^2 - r p2 for the part r c1 along c1
np_linalg_pinv(X) ==
    Bind(col(X, 1), LAMBDA c1 :
    Bind(col(X, 2), LAMBDA c2 :
    Bind(dot(c1, c1), LAMBDA n1 :
    Bind(dot(c2, c2), LAMBDA n2 :
    IF n1 = Zero /\ n2 = Zero THEN np_zeros(2, NRows(X))
    ELSE IF Parallel(c1, c2) THEN mat_div(mat_T(X), FAdd(n1, n2))
    ELSE
    Bind(FDiv(dot(c1, c2), n1), LAMBDA r :
    Bind(vec_add(c2, vec_scale(FNeg(r), c1)), LAMBDA d :
    Bind(vec_scale(FDiv(One, dot(d, d)), d), LAMBDA p2 :
    <<vec_add(vec_scale(FDiv(One, n1), c1), vec_scale(FNeg(r), p2)), p2>>)))))))

\* def mle_theta(self, X, y): return np.linalg.pinv(X) @ y
mle_theta(X, yy) == matvec(np_linalg_pinv(X), yy)

\* a slip: the column of ones put last
build_data_matrix_ones_last(X_star) ==
    [i \in 1..NRows(X_star) |-> X_star[i] \o <<One>>]

\* def build_data_matrix(self, X_star): return np.insert(X_star, 0, 1, axis=1)
build_data_matrix(X_star) ==
    [i \in 1..NRows(X_star) |-> <<One>> \o X_star[i]]

\* learn_parameters that fits only an agent without theta
learn_parameters_keeping_first(a, X_star, yy) ==
    Bind(build_data_matrix(X_star), LAMBDA X :
    [a EXCEPT !.theta = IF a.theta = <<>> THEN mle_theta(X, yy) ELSE a.theta,
              !.status = "learned"])

\* def learn_parameters(self, X_star, y)
learn_parameters(a, X_star, yy) ==
    Bind(build_data_matrix(X_star), LAMBDA X :
    [a EXCEPT !.theta = mle_theta(X, yy), !.status = "learned"])

\* the module-level build_data_matrix(X_star) of the multiple regression
\* notebook called with the positional arguments args: a call with another
\* number of arguments than one raises TypeError
global_build_data_matrix(args) ==
    IF Len(args) # 1 THEN Raised("TypeError")
    ELSE Returned(build_data_matrix(args[1]))

\* learn_parameters of the multiple regression notebook's agent:
\* X = build_data_matrix(self, X_star); self.theta = self.mle_theta(X, y)
learn_parameters_minimal(a, X_star, yy) ==
    Bind(global_build_data_matrix(<<a, X_star>>), LAMBDA X :
    IF X.err # "" THEN [a EXCEPT !.status = X.err]
    ELSE [a EXCEPT !.theta = mle_theta(X.val, yy), !.status = "learned"])

\* def _generating_function(self, X): return X @ self.theta
reg_generating_function(a, X) == matvec(X, a.theta)

\* def predict(self, X_star_new); self.theta is read before it is ever set
\* when learn_parameters was not called
predict(a, X_star_new) ==
    Bind(build_data_matrix(X_star_new), LAMBDA X :
    IF a.theta = <<>> THEN [a EXCEPT !.status = "AttributeError"]
    ELSE [a EXCEPT !.y_pred = reg_generating_function(a, X),
                   !.status = "predicted"])

\* agent = MultipleLinearRegressionAgent(); X_train, y_train, X_test are the
\* notebook's arrays
InitReg ==
    /\ IdleScalar /\ IdleMatrix
    /\ gd_agent = NoMatrixAgent /\ gd_pc = NoRun /\ env_obj = NoMatrixAgent
    /\ \E version \in {"3a", "multiple"} :
          reg_agent = [version |-> version,
                       status |-> "new", theta |-> <<>>, y_pred |-> <<>>,
                       X_train |-> <<>>, y_train |-> <<>>, X_test |-> <<>>]

reg_frame == UNCHANGED <<session_vars, scalar_vars, grid_vars, matrix_vars,
                         gd_agent, gd_pc, env_obj>>

\* agent.learn_parameters(X_train, y_train)
REG_learn_parameters ==
    /\ reg_agent.status = "new"
    /\ \E d \in RegTrainSet :
          reg_agent' = [(IF reg_agent.version = "3a"
                         THEN learn_parameters(reg_agent, d.X_star, d.y_train)
                         ELSE learn_parameters_minimal(reg_agent, d.X_star,
                                                       d.y_train))
                            EXCEPT !.X_train = d.X_star, !.y_train = d.y_train]
    /\ reg_frame

\* agent.predict(X_test), of the agent that has the method
REG_predict ==
    /\ reg_agent.version = "3a"
    /\ reg_agent.status \in {"new", "learned"}
    /\ \E Xn \in RegNewSet :
          reg_agent' = [predict(reg_agent, Xn) EXCEPT !.X_test = Xn]
    /\ reg_frame

NextReg == REG_learn_parameters \/ REG_predict
SpecReg == InitReg /\ [][NextReg]_vars

\* the exact least-squares fit of minimum norm for one feature: the solution
\* of the normal equation if it is unique, else (all x equal to c) the
\* multiple of (1, c) fitting the mean of y
QSumOver(n, f(_)) == LET RECURSIVE S(_)
                         S(k) == IF k = 0 THEN QInt(0) ELSE QAdd(S(k - 1), f(k))
                     IN  S(n)

RegReference(X_star, yy) ==
    LET n   == Len(yy)
        x(i) == QOf(X_star[i][1])
        sx  == QSumOver(n, x)
        sxx == QSumOver(n, LAMBDA i : QMul(x(i), x(i)))
        sy  == QSumOver(n, LAMBDA i : QOf(yy[i]))
        sxy == QSumOver(n, LAMBDA i : QMul(x(i), QOf(yy[i])))
        det == QSub(QMul(QInt(n), sxx), QMul(sx, sx))
        c   == x(1)
        w   == QDiv(QDiv(sy, QInt(n)), QAdd(QInt(1), QMul(c, c)))
    IN  IF det = QInt(0) THEN <<w, QMul(w, c)>>
        ELSE <<QDiv(QSub(QMul(sxx, sy), QMul(sx, sxy)), det),
               QDiv(QSub(QMul(QInt(n), sxy), QMul(sx, sy)), det)>>

\* component k of X^T (X theta - y) for the float theta, computed exactly
RegNormalResidual(a, k) ==
    QSumOver(Len(a.y_train), LAMBDA i :
        QMul(IF k = 1 THEN QInt(1) ELSE QOf(a.X_train[i][1]),
             QSub(QAdd(QOf(a.theta[1]),
                       QMul(QOf(a.theta[2]), QOf(a.X_train[i][1]))),
                  QOf(a.y_train[i]))))

\* the rounding allowed to a parameter, and to the prediction for a row
RegTol == U(64)
RegPredTol(row) == QMul(RegTol, QAdd(QInt(2), QAbs(QOf(row[1]))))
\* the rounding allowed to component k of X^T (X theta - y): that of the
\* fitted value of each row, weighted by the row's entry of column k
RegResidualTol(a, k) ==
    QSumOver(Len(a.y_train), LAMBDA i :
        QMul(IF k = 1 THEN QInt(1) ELSE QAbs(QOf(a.X_train[i][1])),
             RegPredTol(a.X_train[i])))

MaxCalls == 2        \* calls of generate on one environment

EnvThetaSet == {np_eye(2), Diag2(Int2F(2), F(1, 2))}
EnvBSet == {Zero, One}
EnvXStarSet == {FaXStar, <<One, Int2F(2)>>}
EnvXNoiseSet == {<<Zero, Zero>>, <<F(1, 4), F(1, 2)>>}
EnvRegThetaSet == {<<Int2F(3), Int2F(2), Int2F(4)>>, <<Zero, One, One>>}
EnvRegNoiseSet == {Zero, F(1, 4), F(-1, 2)}

\* def __init__(self, params): self.params = SimpleNamespace(**params)
env_init(params) == "params" :> params

\* generate of 6_factor_analysis_em.ipynb: the noisy state is stored on self
em_env_generate(self, xs, x_noise, y_noise) ==
    Bind(vec_add(xs, x_noise), LAMBDA x_star_noise :
    Bind(("x_star_noise" :> x_star_noise) @@ self, LAMBDA self_next :
    [self |-> self_next,
     out |-> fa_env_generate(self_next["params"], <<Zero, Zero>>,
                             self_next["x_star_noise"], y_noise)]))

\* generate of the factor analysis notebook: the noisy state is a local
fa_env_generate_call(self, xs, x_noise, y_noise) ==
    [self |-> self, out |-> fa_env_generate(self["params"], xs, x_noise, y_noise)]

\* generate of 3a_supervised_linear_regression.ipynb: np.insert returns a
\* new array, the name x_star is rebound to it
reg_env_generate(self, xs, noise) ==
    Bind(<<One>> \o xs, LAMBDA x_inserted :
    [self |-> self,
     out |-> FAdd(dot(x_inserted, self["params"].theta_star), noise)])

InitEnv ==
    /\ IdleScalar /\ IdleMatrix
    /\ gd_agent = NoMatrixAgent /\ gd_pc = NoRun /\ reg_agent = NoMatrixAgent
    /\ \E version \in {"fa", "em", "reg"} :
          \E params \in IF version = "reg"
                        THEN [theta_star : EnvRegThetaSet]
                        ELSE [Theta_star : EnvThetaSet, b_star : EnvBSet] :
             env_obj = [version |-> version, self |-> env_init(params),
                        arg |-> <<>>, draws |-> <<>>, out |-> <<>>,
                        calls |-> 0]

env_frame == UNCHANGED <<session_vars, scalar_vars, grid_vars, matrix_vars,
                         gd_agent, gd_pc, reg_agent>>

\* the environment after a call: draws are the values _noise returned
Called(r, xs, draws) ==
    [env_obj EXCEPT !.self = r.self, !.out = r.out, !.arg = xs,
                    !.draws = draws, !.calls = env_obj.calls + 1]

\* y[idx] = env.generate(x_star), factor analysis notebook
ENV_generate_fa ==
    /\ env_obj.version = "fa" /\ env_obj.calls < MaxCalls
    /\ \E xs \in EnvXStarSet, xn \in EnvXNoiseSet, yn \in YNoiseSet :
          env_obj' = Called(fa_env_generate_call(env_obj.self, xs, xn, yn), xs,
                             <<xn, yn>>)
    /\ env_frame

\* Y[idx] = env.generate(x_star), 6_factor_analysis_em.ipynb
ENV_generate_em ==
    /\ env_obj.version = "em" /\ env_obj.calls < MaxCalls
    /\ \E xs \in EnvXStarSet, xn \in EnvXNoiseSet, yn \in YNoiseSet :
          env_obj' = Called(em_env_generate(env_obj.self, xs, xn, yn), xs,
                             <<xn, yn>>)
    /\ env_frame

\* y[idx] = env.generate(x), 3a_supervised_linear_regression.ipynb
ENV_generate_reg ==
    /\ env_obj.version = "reg" /\ env_obj.calls < MaxCalls
    /\ \E xs \in EnvXStarSet, noise \in EnvRegNoiseSet :
          env_obj' = Called(reg_env_generate(env_obj.self, xs, noise), xs,
                             <<noise>>)
    /\ env_frame

NextEnv == ENV_generate_fa \/ ENV_generate_em \/ ENV_generate_reg
SpecEnv == InitEnv /\ [][NextEnv]_vars

\* C17: a call of generate leaves every attribute of the environment as it
\* was, in every version of StaticEnvironment
C17_GenerateLeavesEnvironment ==
    [][env_obj'.calls = env_obj.calls + 1 => env_obj'.self = env_obj.self]_vars

(***************************************************************************)
(* Degenerate posteriors of the grid agent                                 *)
(***************************************************************************)
\* prior and likelihood do not overlap on the grid: at every grid point the
\* prior density or the likelihood of the batch is 0
NoOverlap ==
    /\ exact_agent.prior # <<>>
    /\ \A g \in 1..Len(exact_agent.x_range) :
          \/ exact_agent.prior[g] = Zero
          \/ exact_agent.log_likelihood[g] = NInf

IsProbability(v) == ~IsNaN(v) /\ FLe(Zero, v) /\ FLe(v, One)

\* C18: when prior and likelihood do not overlap on the grid, infer_state
\* still returns, and every entry of the posterior array is a number between
\* 0 and 1
C18_DegenerateIsValid ==
    "exact" \in inferred /\ NoOverlap =>
        /\ Len(exact_agent.posterior) = Len(exact_agent.x_range)
        /\ \A g \in 1..Len(exact_agent.posterior) :
              IsProbability(exact_agent.posterior[g])

(***************************************************************************)
(* run_EM on standardised data                                             *)
(***************************************************************************)
\* every row of Y (every observation channel) has mean zero across the samples
ZeroMeanRows(Y) == \A d \in 1..NRows(Y) : QSum(Y[d]) = QInt(0)

\* the E-step of iteration j has stored posterior_mean[j]
PosteriorMeanWritten(j) == em_run.writes.posterior_mean[j + 1] > 0

RECURSIVE RowMaxAbs(_)
RowMaxAbs(row) ==
    IF row = <<>> THEN Zero
    ELSE IF FLt(FAbs(Head(row)), RowMaxAbs(Tail(row))) THEN RowMaxAbs(Tail(row))
    ELSE FAbs(Head(row))

\* k units in the last place of the float v: k * 2^-Precision * |v|, exactly
Ulps(k, v) == IF v = Zero THEN Zero ELSE Canon(k * Abs(v.m), v.e - Precision)

C20_MStepCountsColumnsOfY ==
    [][em_pc = "M" /\ em_pc' \in {"E", "done"} =>
          em_agent' = em_learn_parameters(em_agent, Ydata, em_run.j,
                                          NCols(Ydata)).val
      ]_vars

(***************************************************************************)
(* The indices run_EM reads and writes                                     *)
(***************************************************************************)
\* the estimates the M-step of iteration j computes from the agent a the
\* E-step left: delta @ inv(gamma) and the diagonal of S - Theta delta^T / N
MStepEstimates(a, Y, j, N) ==
    Bind(matmul(Y, mat_T(a.posterior_mean_s)), LAMBDA delta :
    Bind(inv(mat_add(matmul(a.posterior_mean_s, mat_T(a.posterior_mean_s)),
                     mat_scale(Int2F(N), At(a.posterior_cov, j)))),
         LAMBDA inverse :
    IF inverse.err # "" THEN Raised(inverse.err) ELSE
    Bind(matmul(delta, inverse.val), LAMBDA Theta_next :
    Returned([Theta |-> Theta_next,
              cov_y |-> diag_diag(mat_sub(a.S,
                           mat_div(matmul(Theta_next, mat_T(delta)),
                                   Int2F(N))))]))))

\* index j of the four arrays holds what iteration j computes: the posterior
\* moments of the E-step on Theta[j] and cov_y[j], and for j + 1 < J the
\* estimates of the M-step at index j + 1
HoldsIteration(j) ==
    Bind(em_infer_states(em_agent, Ydata, j, em_run.C), LAMBDA e :
    /\ e.err = ""
    /\ At(em_agent.posterior_mean, j) = At(e.val.posterior_mean, j)
    /\ At(em_agent.posterior_cov, j) = At(e.val.posterior_cov, j)
    /\ j + 1 < em_agent.J =>
          Bind(MStepEstimates(e.val, Ydata, j, em_run.N), LAMBDA m :
          /\ m.err = ""
          /\ At(em_agent.Theta, j + 1) = m.val.Theta
          /\ At(em_agent.cov_y, j + 1) = m.val.cov_y))

\* C21: the M-step writes Theta[j+1] and cov_y[j+1] only when j + 1 < J.
\* During run_EM the index of every step is in 0 .. J-1 and the four arrays
\* keep their J entries; the M-step of the last iteration leaves Theta and
\* cov_y alone and every other M-step stores its estimates at index j + 1;
\* when run_EM has returned, every index 0 .. J-1 of the four arrays holds the
\* value of its iteration (Theta[0] and cov_y[0] the initial ones), J >= 1.
C21_IndicesWithinArrays ==
    /\ [](/\ em_agent.J >= 1
          /\ em_pc \in {"E", "M"} => em_run.j \in 0..(em_agent.J - 1)
          /\ Len(em_agent.Theta) = em_agent.J
          /\ Len(em_agent.cov_y) = em_agent.J
          /\ Len(em_agent.posterior_mean) = em_agent.J
          /\ Len(em_agent.posterior_cov) = em_agent.J
          /\ em_pc = "done" =>
                /\ At(em_agent.Theta, 0) = em_agent.Theta_init
                /\ At(em_agent.cov_y, 0) = em_agent.cov_y_init
                /\ \A j \in 0..(em_agent.J - 1) : HoldsIteration(j))
    /\ [][em_pc = "M" /\ em_pc' \in {"E", "done"} =>
             IF em_run.j + 1 < em_agent.J
             THEN Bind(MStepEstimates(em_agent, Ydata, em_run.j, em_run.N),
                       LAMBDA m :
                       /\ m.err = ""
                       /\ At(em_agent'.Theta, em_run.j + 1) = m.val.Theta
                       /\ At(em_agent'.cov_y, em_run.j + 1) = m.val.cov_y)
             ELSE /\ em_agent'.Theta = em_agent.Theta
                  /\ em_agent'.cov_y = em_agent.cov_y
                  /\ em_pc' = "done"
         ]_vars

\* a run of three iterations has returned: the M-step of j = 2 wrote nothing
\* and the entries of index 1 and 2 hold estimates
C21_Witness ==
    /\ em_pc = "done"
    /\ em_agent.J = 3
    /\ em_run.j = 3
    /\ em_run.steps[6] = <<"M", 2>>
    /\ At(em_agent.Theta, 2) # np_zeros(2, 1)
    /\ At(em_agent.posterior_cov, 2) # np_zeros(1, 1)

(***************************************************************************)
(* 7_scaling_to_multiple_samples: the likelihood over all samples as a     *)
(* product of densities and as a sum of their logarithms                   *)
(***************************************************************************)
\* the float product of two densities: below the smallest positive float the
\* product is 0, and 0 stays 0 under every further factor
pdf_mul(a, b) ==
    IF IsNaN(a) \/ IsNaN(b) THEN NaN
    ELSE IF a = Zero \/ b = Zero
         THEN (IF a.k = "inf" \/ b.k = "inf" THEN NaN ELSE Zero)
    ELSE np_exp(FAdd(LogOf(a), LogOf(b)))

\* the product of a one-dimensional array, multiplied up from the left
RECURSIVE FProd(_)
FProd(s) == IF s = <<>> THEN One
            ELSE pdf_mul(FProd(SubSeq(s, 1, Len(s) - 1)), s[Len(s)])

\* likelihood_i.prod(axis=0) of an N x G matrix given as a sequence of rows
prod_axis0(m, G) == [g \in 1..G |-> FProd([i \in 1..Len(m) |-> m[i][g]])]

\* for i in range(N): likelihood_i[i] = norm.pdf(y[i], loc=mu_y, scale=...)
likelihood_rows(a, yy, mu_y) ==
    [i \in 1..Len(yy) |->
        [g \in 1..Len(mu_y) |-> norm_pdf(yy[i], mu_y[g], a.std_y)]]

\* mu_y of the agent and the likelihood matrix of its generative_model on
\* the batch y
MuY == [g \in 1..Len(exact_agent.x_range) |->
           gm(exact_agent, exact_agent.x_range[g])]
LikelihoodMatrix == generative_model(exact_agent, y, MuY).likelihood_i
LogOfProduct ==
    [g \in 1..Len(MuY) |-> np_log(prod_axis0(LikelihoodMatrix, Len(MuY))[g])]
RowsAreSingleSamples ==
    /\ Len(LikelihoodMatrix) = Len(y)
    /\ \A i \in 1..Len(y) :
          /\ LikelihoodMatrix[i] = likelihood_rows(exact_agent, <<y[i]>>, MuY)[1]
          /\ LikelihoodMatrix[i] =
                generative_model(exact_agent, <<y[i]>>, MuY).likelihood_i[1]

np_argmax(a) ==
    IF \E i \in 1..Len(a) : IsNaN(a[i])
    THEN (CHOOSE i \in 1..Len(a) :
             IsNaN(a[i]) /\ \A k \in 1..(i - 1) : ~IsNaN(a[k])) - 1
    ELSE (CHOOSE i \in 1..Len(a) :
             /\ \A k \in 1..Len(a) : FLe(a[k], a[i])
             /\ \A k \in 1..(i - 1) : FLt(a[k], a[i])) - 1

RoundsToMode(g, mx) ==
    /\ IsFin(exact_agent.log_gen_model[g])
    /\ FLe(FSub(mx, exact_agent.log_gen_model[g]), F(1, 2 * TwoP))

ClosedFormMAPOfBatch ==
    map_posterior_mode(y, exact_agent.beta_0, exact_agent.beta_1,
                       exact_agent.m_x)
GridDistance(g, v) == QAbs(QSub(QOf(exact_agent.x_range[g]), QOf(v)))

\* C24: for the same beta_0, beta_1, m_x and observations, the grid point with
\* the largest posterior of ExactLinearAgent is the grid point nearest to the
\* posterior_mode of LinearMaximumAprioriAgent (here: whenever prior and
\* likelihood overlap on the grid, so that the posterior is a distribution)
C24_GridModeIsClosedFormMAP ==
    "exact" \in inferred /\ ~NoOverlap =>
        Bind(np_argmax(exact_agent.posterior) + 1, LAMBDA i :
        Bind(ClosedFormMAPOfBatch, LAMBDA mode :
        \A g \in 1..Len(exact_agent.x_range) :
            QLe(GridDistance(i, mode), GridDistance(g, mode))))

(***************************************************************************)
(* The sample count of FactorAnalysisAgent.infer_states                    *)
(***************************************************************************)
\* C25: the N of the posterior covariance and of the posterior mean that
\* infer_states(y) computes is the number of rows of y: the two moments are
\* the ones the formulas give with N = len(y)
C25_NIsRowsOfY ==
    fa_agent.status = "done" =>
        Bind(inv(fa_agent.cov_x).val, LAMBDA Pi_x :
        Bind(inv(fa_agent.cov_y).val, LAMBDA Pi_y :
        /\ fa_agent.cov_posterior =
              fa_cov_posterior(Pi_x, Pi_y, Len(Ydata)).val
        /\ fa_agent.mean_posterior =
              fa_mean_posterior(fa_agent.cov_posterior, Pi_x, Pi_y,
                                Len(Ydata), Ydata, fa_agent.mu_x)))

(***************************************************************************)
(* learn_parameters of both regression agents                              *)
(***************************************************************************)
LearnParametersCalled == reg_agent.X_train # <<>>

\* C26: for every version of MultipleLinearRegressionAgent, learn_parameters
\* on a fresh agent completes without error and leaves theta equal to
\* mle_theta(X, y), X being X_star with a column of ones inserted first
C26_LearnParametersCompletes ==
    LearnParametersCalled =>
        /\ reg_agent.status \in {"learned", "predicted"}
        /\ reg_agent.theta =
              mle_theta(build_data_matrix(reg_agent.X_train), reg_agent.y_train)

(***************************************************************************)
(* What the multivariate StaticEnvironment.generate returns                *)
(***************************************************************************)
MultivariateCalled == env_obj.version \in {"fa", "em"} /\ env_obj.calls > 0
\* the exact Theta_star x + b_star, row i, and the size of its terms
QAffine(i, x) ==
    QAdd(QAdd(QMul(QOf(env_obj.self["params"].Theta_star[i][1]), x[1]),
              QMul(QOf(env_obj.self["params"].Theta_star[i][2]), x[2])),
         QOf(env_obj.self["params"].b_star))
QAffineSize(i, x) ==
    QAdd(QAdd(QAbs(QMul(QOf(env_obj.self["params"].Theta_star[i][1]), x[1])),
              QAbs(QMul(QOf(env_obj.self["params"].Theta_star[i][2]), x[2]))),
         QAbs(QOf(env_obj.self["params"].b_star)))
\* row i of the result is the exact value v up to the rounding of the float
\* operations on terms of total size sz
ResultIs(i, v, sz) ==
    QLe(QAbs(QSub(QOf(env_obj.out[i]), v)), QMul(U(8), sz))

\* C27 as stated: the result is Theta_star x_star + b_star plus the
\* observation noise alone (up to rounding), and with zero observation noise
\* it is exactly the float Theta_star x_star + b_star
C27_AffinePlusObservationNoise ==
    MultivariateCalled =>
        Bind(QVecOf(env_obj.arg), LAMBDA x :
        /\ \A i \in 1..2 :
              ResultIs(i, QAdd(QAffine(i, x), QOf(env_obj.draws[2][i])),
                       QAdd(QAffineSize(i, x),
                            QAbs(QOf(env_obj.draws[2][i]))))
        /\ env_obj.draws[2] = <<Zero, Zero>> =>
              env_obj.out =
                 [i \in 1..2 |->
                     FAdd(dot(env_obj.self["params"].Theta_star[i], env_obj.arg),
                          env_obj.self["params"].b_star)])

\* C27 amended: the result is the affine map of the noisy state
\* x_star + x_noise, x_noise a draw with covariance cov_x_star, plus the
\* observation noise: Theta_star (x_star + x_noise) + b_star + y_noise up to
\* rounding; it is exactly the float Theta_star x_star + b_star when both
\* draws are zero
C27_AffineOfNoisyState ==
    MultivariateCalled =>
        Bind(QVecAdd(QVecOf(env_obj.arg), QVecOf(env_obj.draws[1])), LAMBDA x :
        /\ \A i \in 1..2 :
              ResultIs(i, QAdd(QAffine(i, x), QOf(env_obj.draws[2][i])),
                       QAdd(QAffineSize(i, x),
                            QAbs(QOf(env_obj.draws[2][i]))))
        /\ (env_obj.draws[1] = <<Zero, Zero>>
            /\ env_obj.draws[2] = <<Zero, Zero>>) =>
              env_obj.out =
                 [i \in 1..2 |->
                     FAdd(dot(env_obj.self["params"].Theta_star[i], env_obj.arg),
                          env_obj.self["params"].b_star)])

\* a call with state noise and without observation noise, whose result is
\* away from Theta_star x_star + b_star
C27_Witness ==
    /\ MultivariateCalled
    /\ env_obj.draws[1] # <<Zero, Zero>>
    /\ env_obj.draws[2] = <<Zero, Zero>>
    /\ env_obj.self["params"].Theta_star # np_eye(2)
    /\ env_obj.out #
          [i \in 1..2 |->
              FAdd(dot(env_obj.self["params"].Theta_star[i], env_obj.arg),
                   env_obj.self["params"].b_star)]

(***************************************************************************)
(* The data flow between the steps of run_EM                               *)
(***************************************************************************)
\* the per-sample posterior means and the posterior covariance of the E-step
\* on Theta[j] and cov_y[j] of the agent a
EStepMoments(a, Y, j) ==
    Bind(At(a.Theta, j), LAMBDA Theta_j :
    Bind(matmul(mat_T(Theta_j),
                inv(mat_add(matmul(Theta_j, mat_T(Theta_j)),
                            At(a.cov_y, j))).val), LAMBDA beta :
    [posterior_mean_s |-> matmul(beta, Y),
     posterior_cov |-> mat_sub(np_eye(NCols(Theta_j)), matmul(beta, Theta_j))]))

\* C28: an E-step of iteration j computes its moments from Theta[j] and
\* cov_y[j]; the M-step that follows runs in the same iteration j on the
\* per-sample posterior means and posterior_cov[j] of that E-step, stores
\* Theta[j+1] = delta inv(gamma) and computes cov_y[j+1] from this new
\* Theta[j+1]; and the E-step that follows an M-step runs in iteration j + 1 on
\* the arrays as the M-step left them
C28_StepsFeedEachOther ==
    [][/\ (em_pc = "E" /\ em_pc' = "M") =>
            Bind(EStepMoments(em_agent, Ydata, em_run.j), LAMBDA e :
            /\ em_run'.j = em_run.j
            /\ em_agent'.posterior_mean_s = e.posterior_mean_s
            /\ At(em_agent'.posterior_cov, em_run.j) = e.posterior_cov
            /\ em_agent'.Theta = em_agent.Theta
            /\ em_agent'.cov_y = em_agent.cov_y)
       /\ (em_pc = "M" /\ em_pc' \in {"E", "done"}) =>
            Bind(EStepMoments(em_agent, Ydata, em_run.j), LAMBDA e :
            Bind(matmul(Ydata, mat_T(e.posterior_mean_s)), LAMBDA delta :
            /\ em_agent.posterior_mean_s = e.posterior_mean_s
            /\ At(em_agent.posterior_cov, em_run.j) = e.posterior_cov
            /\ em_run.j + 1 < em_agent.J =>
                  /\ At(em_agent'.Theta, em_run.j + 1) =
                        matmul(delta,
                               inv(mat_add(matmul(e.posterior_mean_s,
                                                  mat_T(e.posterior_mean_s)),
                                           mat_scale(Int2F(em_run.N),
                                                     e.posterior_cov))).val)
                  /\ At(em_agent'.cov_y, em_run.j + 1) =
                        diag_diag(mat_sub(em_agent.S,
                            mat_div(matmul(At(em_agent'.Theta, em_run.j + 1),
                                           mat_T(delta)),
                                    Int2F(em_run.N))))
            /\ em_pc' = "E" => em_run'.j = em_run.j + 1))
      ]_vars

\* the E-step of iteration 1 has run on estimates the M-step of iteration 0
\* wrote, and they differ from the initial ones
C28_Witness ==
    /\ em_pc = "M"
    /\ em_run.steps = <<<<"E", 0>>, <<"M", 0>>, <<"E", 1>>>>
    /\ At(em_agent.Theta, 1) # At(em_agent.Theta, 0)
    /\ At(em_agent.cov_y, 1) # At(em_agent.cov_y, 0)
    /\ At(em_agent.posterior_cov, 1) # At(em_agent.posterior_cov, 0)
    /\ At(em_agent.posterior_mean, 1) # At(em_agent.posterior_mean, 0)

(***************************************************************************)
(* run_EM called twice on one agent                                        *)
(***************************************************************************)
MaxRuns == 2         \* calls of run_EM on one agent

\* what a call of run_EM left: how it ended and the four arrays
LeftByRun ==
    [pc |-> em_pc, err |-> em_run.err, steps |-> em_run.steps,
     posterior_mean |-> em_agent.posterior_mean,
     posterior_cov |-> em_agent.posterior_cov,
     Theta |-> em_agent.Theta, cov_y |-> em_agent.cov_y]

\* a session that counts the calls of run_EM and keeps what the first left
InitEMTwice ==
    /\ IdleExtra
    /\ IdleScalar
    /\ fa_agent = NoMatrixAgent
    /\ Ydata \in EmYSet
    /\ \E J \in 1..MaxJ, Theta_init \in ThetaInitSet, cov_y_init \in CovYInitSet :
          em_agent = em_init([J |-> J, C |-> NCols(Theta_init),
                              D |-> NRows(Theta_init),
                              Theta_init |-> Theta_init, cov_y_init |-> cov_y_init])
    /\ em_pc = "idle"
    /\ \E N \in NGlobalSet :
          em_run = [j |-> 0, err |-> "", N |-> N, C |-> em_agent.C,
                    steps |-> <<>>, writes |-> NoWrites(em_agent.J),
                    runs |-> 1, first |-> <<>>]

\* agent.run_EM(Y) once more, after the call before has returned or raised:
\* self.S = np.cov(Y) and the loop from j = 0
EM_run_again ==
    /\ em_pc \in {"done", "raised"}
    /\ em_run.runs < MaxRuns
    /\ em_agent' = [em_agent EXCEPT !.S = np_cov(Ydata)]
    /\ em_pc' = IF loop_continues(0, em_agent.J) THEN "E" ELSE "done"
    /\ em_run' = [em_run EXCEPT !.j = 0, !.err = "", !.steps = <<>>,
                                !.writes = NoWrites(em_agent.J),
                                !.runs = @ + 1,
                                !.first = IF @ = <<>> THEN LeftByRun ELSE @]
    /\ UNCHANGED <<session_vars, scalar_vars, grid_vars, Ydata, fa_agent, extra_vars>>

NextEMTwice == run_EM \/ EM_infer_states \/ EM_learn_parameters \/ EM_run_again

SpecEMTwice == InitEMTwice /\ [][NextEMTwice]_vars

\* C29: a second call of run_EM with the same Y starts from the caller's
\* Theta[0] and cov_y[0] at j = 0, and when it has ended it has ended as the
\* first call did and posterior_mean, posterior_cov, Theta and cov_y are equal
\* to what the first call left
C29_SecondRunRepeatsFirst ==
    em_run.runs = 2 =>
        /\ em_run.steps = <<>> =>
              /\ em_run.j = 0
              /\ At(em_agent.Theta, 0) = em_agent.Theta_init
              /\ At(em_agent.cov_y, 0) = em_agent.cov_y_init
        /\ RunEnded => LeftByRun = em_run.first

\* a second run of three iterations has returned, over arrays the first run
\* had filled with estimates that are not the initial ones
C29_Witness ==
    /\ em_run.runs = 2
    /\ em_pc = "done"
    /\ em_agent.J = 3
    /\ Len(em_run.steps) = 6
    /\ em_run.first.pc = "done"
    /\ At(em_agent.Theta, 2) # At(em_agent.Theta, 1)
    /\ At(em_agent.Theta, 1) # em_agent.Theta_init
    /\ At(em_agent.posterior_mean, 1) # <<Zero>>

(***************************************************************************)
(* Several calls on one MultipleLinearRegressionAgent: the notebook's      *)
(* cells may be run again in any order, so learn_parameters and predict    *)
(* are called in any sequence; calls records each call with its argument   *)
(* and the theta attribute it left                                         *)
(***************************************************************************)
MaxRegCalls == 3     \* calls on one regression agent

RegCallTrainSet ==
    {[X_star |-> <<<<Zero>>, <<One>>>>, y_train |-> <<Zero, One>>],
     [X_star |-> <<<<Zero>>, <<One>>, <<Int2F(2)>>>>,
      y_train |-> <<One, Zero, Int2F(3)>>],
     [X_star |-> <<<<One>>>>, y_train |-> <<Int2F(3)>>]}

InitRegCalls ==
    /\ IdleScalar /\ IdleMatrix
    /\ gd_agent = NoMatrixAgent /\ gd_pc = NoRun /\ env_obj = NoMatrixAgent
    /\ reg_agent = [version |-> "3a",
                    status |-> "new", theta |-> <<>>, y_pred |-> <<>>,
                    X_train |-> <<>>, y_train |-> <<>>, X_test |-> <<>>,
                    calls |-> <<>>]

\* agent.learn_parameters(X_train, y_train), on a new or a used agent
REG_call_learn_parameters ==
    /\ Len(reg_agent.calls) < MaxRegCalls
    /\ \E d \in RegCallTrainSet :
          Bind(learn_parameters(reg_agent, d.X_star, d.y_train), LAMBDA a :
          reg_agent' = [a EXCEPT !.X_train = d.X_star, !.y_train = d.y_train,
                                 !.calls = Append(@, [op |-> "learn_parameters",
                                                      arg |-> d,
                                                      theta |-> a.theta])])
    /\ reg_frame

\* agent.predict(X_test), on a new or a used agent
REG_call_predict ==
    /\ Len(reg_agent.calls) < MaxRegCalls
    /\ \E Xn \in RegNewSet :
          Bind(predict(reg_agent, Xn), LAMBDA a :
          reg_agent' = [a EXCEPT !.X_test = Xn,
                                 !.calls = Append(@, [op |-> "predict",
                                                      arg |-> Xn,
                                                      theta |-> a.theta])])
    /\ reg_frame

NextRegCalls == REG_call_learn_parameters \/ REG_call_predict
SpecRegCalls == InitRegCalls /\ [][NextRegCalls]_vars

\* the positions of the calls of op among the first n calls
CallsOf(op, n) == {i \in 1..n : reg_agent.calls[i].op = op}

\* the greatest element of a non-empty set of positions
LastOf(S) == CHOOSE i \in S : \A k \in S : k <= i

\* C30: predict on an agent on which learn_parameters never completed ends
\* in AttributeError and leaves y_pred unset; after any sequence of calls
\* y_pred is the product of the last predict's data matrix with the theta
\* left by the most recent learn_parameters call before that predict
C30_PredictUsesLatestTheta ==
    LET n == Len(reg_agent.calls)
        predicts == CallsOf("predict", n)
    IN  /\ CallsOf("learn_parameters", n) = {} =>
              /\ reg_agent.y_pred = <<>>
              /\ predicts # {} => reg_agent.status = "AttributeError"
        /\ predicts # {} =>
              LET p == LastOf(predicts)
                  learnt == CallsOf("learn_parameters", p - 1)
              IN  IF learnt = {} THEN reg_agent.y_pred = <<>>
                  ELSE Bind(reg_agent.calls[LastOf(learnt)].arg, LAMBDA d :
                       reg_agent.y_pred =
                          matvec(build_data_matrix(reg_agent.calls[p].arg),
                                 mle_theta(build_data_matrix(d.X_star),
                                           d.y_train)))

\* two fits that leave different thetas, then a prediction
C30_Witness ==
    /\ Len(reg_agent.calls) = 3
    /\ reg_agent.calls[1].op = "learn_parameters"
    /\ reg_agent.calls[2].op = "learn_parameters"
    /\ reg_agent.calls[1].theta # reg_agent.calls[2].theta
    /\ reg_agent.calls[3].op = "predict"
    /\ reg_agent.status = "predicted"
    /\ reg_agent.y_pred # matvec(build_data_matrix(reg_agent.X_test),
                                 reg_agent.calls[1].theta)


=============================================================================
